---------------------------- MODULE Spec2Model ----------------------------
(***************************************************************************)
(* Paper-trading ledger, risk validator and engine handlers of FUTBOT.     *)
(*                                                                         *)
(* Numbers.  The program computes in binary floating point; the model      *)
(* computes in fixed point, every product followed by a truncating         *)
(* division where the program multiplies by a fraction:                    *)
(*   money            1 unit = 0.001 USDT                                  *)
(*   price            1 unit = 0.01  USDT                                  *)
(*   quantity         1 unit = 0.0001 contract                             *)
(*   position_size_pct, max_risk_per_trade_pct   1 unit = 0.001            *)
(*   confidence                                  1 unit = 0.01             *)
(*   margin_ratio                                1 unit = 0.001            *)
(*   taker_fee, slippage                         1 unit = 0.0001           *)
(*   maintenance margin rate                     1 unit = 0.001            *)
(*   time             1 unit = 15 seconds                                  *)
(*   drawdown thresholds of the circuit breaker  1 unit = 0.01             *)
(*   clock of the circuit breaker                1 unit = 1 hour           *)
(*   funding rate                                1 unit = 0.00001          *)
(* An Optional value is <<>> (None) or <<v>>.                              *)
(*                                                                         *)
(* Time.  The program stores instants (opened_at, the cooldown's close     *)
(* time) and only ever reads the time elapsed since them, compared with    *)
(* 15 seconds and 3 minutes.  The model stores the elapsed time itself,    *)
(* which a Tick advances for every stored instant at once, up to 3         *)
(* minutes, beyond which no comparison of the program changes.             *)
(* The circuit breaker reads the clock itself, for the 4 hours of a pause   *)
(* and the calendar day; the model keeps it in hours.  The engine's steps  *)
(* all fall within one hour of one day, so the clock stands still in them  *)
(* and the check_new_day of the analysis loop (engine.py line 259) leaves  *)
(* the breaker as it is; the hours and days pass in SpecBreaker.           *)
(***************************************************************************)
EXTENDS Integers, Sequences, FiniteSets, TLC

VARIABLES
    balance,          \* PaperTrader.balance
    initial_balance,  \* PaperTrader.initial_balance
    peak_balance,     \* PaperTrader._peak_balance
    positions,        \* PaperTrader.positions: pair -> Position
    db,               \* trades table, the rows with status 'open': id -> row
    stream,           \* the stream task, running _on_kline
    analysis,         \* the analysis task, running _analyze_pair
    next_id,          \* ids handed out so far (uuid4 in the program)
    restarts,         \* process restarts so far
    failures,         \* persistence writes that raised so far
    credits,          \* history: id -> times margin_used + net_pnl was credited
    returned,         \* history: id -> Trades returned by close_position
    pair_cooldown,    \* TradingEngine._pair_cooldown: pair -> last close time
    risk_manager,     \* RiskManager: _params and _fear_greed
    v_in,             \* the arguments of the last call of validate,
                      \* open_position or close_position made on its own
    v_out,            \* what that call returned
    circuit_breaker,  \* CircuitBreaker: the fields set by __init__
    clock,            \* datetime.utcnow() as the circuit breaker reads it
    fundings,         \* calls of apply_funding_rate made so far
    cycle,            \* pairs the analysis loop has still to analyse in this pass
    position_manager, \* PositionManager: _today_start and _today_start_balance
    closed_trades,    \* trades table, the rows with status 'closed' that
                      \* close_position run to its return has written, oldest first
    api_costs,        \* api_costs table: the cost rows, oldest first
    daily_stats,      \* daily_stats table: the set of its rows
    stream_manager,   \* StreamManager and its _connect_streams task
    closed_ago        \* history: pair -> time since close_position last
                      \* removed a position of the pair

vars == <<balance, initial_balance, peak_balance, positions, db, stream,
          analysis, next_id, restarts, failures, credits, returned,
          pair_cooldown, risk_manager, v_in, v_out, circuit_breaker, clock,
          fundings, cycle,
          position_manager, closed_trades, api_costs, daily_stats,
          stream_manager, closed_ago>>

----------------------------------------------------------------------------
(* Bounds of the model *)

MaxOpens == 1
MaxRestarts == 1
MaxFailures == 1
MaxEntries == 2
MaxFundings == 2

----------------------------------------------------------------------------
(* config/settings.py *)

default_leverage == 3
max_leverage == 10
default_position_pct == 5
max_position_pct == 15
max_open_positions == 5
min_score_to_enter == 60
max_risk_per_trade_pct == 10
taker_fee == 5
slippage_major == 1
slippage_alt == 3
settings_initial_balance == 5000000
MAJOR_PAIRS == {"BTCUSDT", "ETHUSDT"}
daily_loss_pause_pct == -2
daily_loss_stop_pct == -3
total_drawdown_stop_pct == -10

(* paper_trader.py: maint_rate = 0.004 *)
maint_rate == 4

----------------------------------------------------------------------------
(* Arithmetic and Python truthiness *)

None == <<>>
Some(x) == <<x>>

\* bool(x) of an Optional number: None and 0 are false
Truthy(x) == x # None /\ x[1] # 0

\* x or d
OrElse(x, d) == IF Truthy(x) THEN x[1] ELSE d

Abs(x) == IF x < 0 THEN -x ELSE x

\* the later of two values, whatever they are
latestBalance(a, b) == b

Max2(a, b) == IF a >= b THEN a ELSE b

\* a / b rounded toward zero, for any sign of a and b (b # 0)
Quot(a, b) ==
    LET n == IF b < 0 THEN -a ELSE a
        d == Abs(b)
    IN  IF n >= 0 THEN n \div d ELSE -((-n) \div d)

\* a * (num / den)
MulFrac(a, num, den) == Quot(a * num, den)

----------------------------------------------------------------------------
(* core/models.py *)

ActionTypes == {"ENTER_LONG", "ENTER_SHORT", "EXIT", "ADJUST", "HOLD"}
EnterActions == {"ENTER_LONG", "ENTER_SHORT"}

TradeDecision(action, pair, direction, leverage, position_size_pct, entry_price, stop_loss, take_profit, confidence) ==
    [action |-> action, pair |-> pair, direction |-> direction,
     leverage |-> leverage, position_size_pct |-> position_size_pct,
     entry_price |-> entry_price, stop_loss |-> stop_loss,
     take_profit |-> take_profit, confidence |-> confidence]

----------------------------------------------------------------------------
(* risk/risk_manager.py *)

\* RiskManager(): _params = {} and _fear_greed = 50
RiskManagerInit == [params |-> [max_open_positions |-> None,
                                min_score_to_enter |-> None],
                    fear_greed |-> 50]

\* self._get(key, default)
ParamGet(rm, key, default) ==
    IF rm.params[key] = None THEN default ELSE rm.params[key][1]

Verdict(ok, reason) == [ok |-> ok, reason |-> reason]

\* lines 93-101: the risk implied by the stop distance, when there is an
\* entry price to measure it from
RiskTooHigh(decision, pos_pct) ==
    LET leverage == OrElse(decision.leverage, default_leverage)
        entry_approx == OrElse(decision.entry_price, 0)
    IN  /\ entry_approx > 0
        /\ decision.stop_loss[1] > 0
        \* pos_pct * leverage * |entry - sl| / entry > max_risk * 2
        /\ pos_pct * leverage * Abs(entry_approx - decision.stop_loss[1])
              > max_risk_per_trade_pct * 2 * entry_approx

\* lines 108-109, balance * pos_pct > balance * 0.95, the balance divided out
MarginTooHigh(bal, pos_pct) ==
    IF bal > 0 THEN pos_pct > 950
    ELSE IF bal < 0 THEN pos_pct < 950
    ELSE FALSE

\* lines 55-112
ValidateEntry(rm, decision, bal, open_positions, has_position_for_pair, margin_ratio_now) ==
    LET max_pos == ParamGet(rm, "max_open_positions", max_open_positions)
        min_score == ParamGet(rm, "min_score_to_enter", min_score_to_enter)
        pos_pct == OrElse(decision.position_size_pct, default_position_pct)
    IN  IF has_position_for_pair THEN Verdict(FALSE, "already_have_position")
        ELSE IF open_positions >= max_pos THEN Verdict(FALSE, "max_positions")
        ELSE IF decision.confidence < min_score THEN Verdict(FALSE, "confidence")
        ELSE IF rm.fear_greed < 15 /\ decision.confidence < 80
             THEN Verdict(FALSE, "extreme_fear")
        ELSE IF Truthy(decision.leverage) /\ decision.leverage[1] > max_leverage
             THEN Verdict(FALSE, "leverage")
        ELSE IF pos_pct > max_position_pct THEN Verdict(FALSE, "position_size")
        ELSE IF ~Truthy(decision.stop_loss) \/ decision.stop_loss[1] <= 0
             THEN Verdict(FALSE, "stop_loss")
        ELSE IF ~Truthy(decision.take_profit) \/ decision.take_profit[1] <= 0
             THEN Verdict(FALSE, "take_profit")
        ELSE IF RiskTooHigh(decision, pos_pct) THEN Verdict(FALSE, "risk")
        ELSE IF margin_ratio_now > 700 THEN Verdict(FALSE, "margin_ratio")
        ELSE IF MarginTooHigh(bal, pos_pct) THEN Verdict(FALSE, "margin")
        ELSE Verdict(TRUE, "")

\* a validator that lets every EXIT through, with or without a position
validateExitAlways(rm, decision, bal, open_positions, has_position_for_pair, circuit_breaker_active, margin_ratio_now) ==
    IF circuit_breaker_active /\ decision.action \in EnterActions
    THEN Verdict(FALSE, "circuit_breaker")
    ELSE IF decision.action \in {"HOLD", "EXIT"} THEN Verdict(TRUE, "")
    ELSE IF decision.action = "ADJUST"
         THEN IF ~has_position_for_pair THEN Verdict(FALSE, "no_position_to_adjust")
              ELSE Verdict(TRUE, "")
    ELSE ValidateEntry(rm, decision, bal, open_positions,
                       has_position_for_pair, margin_ratio_now)

\* a validator whose circuit breaker blocks every action but HOLD
validateBlockingAll(rm, decision, bal, open_positions, has_position_for_pair, circuit_breaker_active, margin_ratio_now) ==
    IF circuit_breaker_active /\ decision.action # "HOLD"
    THEN Verdict(FALSE, "circuit_breaker")
    ELSE IF decision.action = "HOLD" THEN Verdict(TRUE, "")
    ELSE IF decision.action \in {"EXIT", "ADJUST"}
         THEN IF ~has_position_for_pair THEN Verdict(FALSE, "no_position")
              ELSE Verdict(TRUE, "")
    ELSE ValidateEntry(rm, decision, bal, open_positions,
                       has_position_for_pair, margin_ratio_now)

\* RiskManager.validate, lines 26-114
validate(rm, decision, bal, open_positions, has_position_for_pair, circuit_breaker_active, margin_ratio_now) ==
    IF circuit_breaker_active /\ decision.action \in EnterActions
    THEN Verdict(FALSE, "circuit_breaker")
    ELSE IF decision.action = "HOLD" THEN Verdict(TRUE, "")
    ELSE IF decision.action = "EXIT"
         THEN IF ~has_position_for_pair THEN Verdict(FALSE, "no_position_to_exit")
              ELSE Verdict(TRUE, "")
    ELSE IF decision.action = "ADJUST"
         THEN IF ~has_position_for_pair THEN Verdict(FALSE, "no_position_to_adjust")
              ELSE Verdict(TRUE, "")
    ELSE IF decision.action \in EnterActions
         THEN ValidateEntry(rm, decision, bal, open_positions,
                            has_position_for_pair, margin_ratio_now)
    ELSE Verdict(FALSE, "unknown_action")

----------------------------------------------------------------------------
(* core/models.py: Position *)

Position(id, pair, direction, entry_price, current_price, quantity, leverage, stop_loss, take_profit, margin_used, entry_fee, held, highest_price, lowest_price, liquidation_price) ==
    [id |-> id, pair |-> pair, direction |-> direction,
     entry_price |-> entry_price, current_price |-> current_price,
     quantity |-> quantity, leverage |-> leverage, stop_loss |-> stop_loss,
     take_profit |-> take_profit, margin_used |-> margin_used,
     unrealized_pnl |-> 0, entry_fee |-> entry_fee, funding_paid |-> 0,
     held |-> held, trailing_stop_distance |-> None,
     highest_price |-> highest_price, lowest_price |-> lowest_price,
     liquidation_price |-> liquidation_price]

\* a dict without one key
DictDel(d, k) == [x \in DOMAIN d \ {k} |-> d[x]]
\* a dict with d[k] = v
DictPut(d, k, v) == [x \in DOMAIN d \cup {k} |-> IF x = k THEN v ELSE d[x]]

----------------------------------------------------------------------------
(* execution/paper_trader.py *)

Slippage(pair) == IF pair \in MAJOR_PAIRS THEN slippage_major ELSE slippage_alt

\* an exit at the market price, without slippage
exitAtMarket(pair, direction, current_price) == current_price

\* lines 38-43
EntryPrice(pair, direction, current_price) ==
    IF direction = Some("LONG")
    THEN MulFrac(current_price, 10000 + Slippage(pair), 10000)
    ELSE MulFrac(current_price, 10000 - Slippage(pair), 10000)

\* lines 58-65: entry * (1 - 1/leverage + maint_rate), mirrored for SHORT
LiquidationPrice(direction, entry_price, leverage) ==
    IF direction = Some("LONG")
    THEN Quot(entry_price * (1000 * leverage - 1000 + maint_rate * leverage),
              1000 * leverage)
    ELSE Quot(entry_price * (1000 * leverage + 1000 - maint_rate * leverage),
              1000 * leverage)

\* lines 33-36
OpenLeverage(decision) == OrElse(decision.leverage, default_leverage)
OpenMargin(bal, decision) ==
    MulFrac(bal, OrElse(decision.position_size_pct, default_position_pct), 1000)
OpenNotional(bal, decision) == OpenMargin(bal, decision) * OpenLeverage(decision)

\* lines 47-48
EntryFee(notional) == MulFrac(notional, taker_fee, 10000)

\* a debit that leaves the entry fee out
DebitWithoutFee(margin, entry_fee) == margin

\* lines 50-56: what the call takes from the balance
OpenDebit(margin, entry_fee) == margin + entry_fee

\* lines 67-84
NewPosition(id, decision, current_price, bal) ==
    LET entry_price == EntryPrice(decision.pair, decision.direction, current_price)
        notional == OpenNotional(bal, decision)
    IN  Position(id, decision.pair, decision.direction[1], entry_price,
                 current_price,
                 Quot(notional * 1000, entry_price),
                 OpenLeverage(decision),
                 OrElse(decision.stop_loss, 0), OrElse(decision.take_profit, 0),
                 OpenMargin(bal, decision), EntryFee(notional), 0,
                 entry_price, entry_price,
                 LiquidationPrice(decision.direction, entry_price,
                                  OpenLeverage(decision)))

\* an open that takes margin and fee before it looks at the ledger
openDebitingFirst(bal, poss, decision, current_price, id) ==
    [kind |-> "duplicate",
     balance |-> bal - OpenDebit(OpenMargin(bal, decision),
                                 EntryFee(OpenNotional(bal, decision))),
     positions |-> poss]

\* PaperTrader.open_position up to its await of db.insert_trade (lines 25-86).
\* kind: "duplicate" and "insufficient" return None; "raised" is pydantic
\* refusing Position(direction=None), after the balance was debited;
\* "opened" goes on to the persistence write.
open_position(bal, poss, decision, current_price, id) ==
    LET margin == OpenMargin(bal, decision)
        entry_fee == EntryFee(OpenNotional(bal, decision))
        total_cost == margin + entry_fee
    IN  IF decision.pair \in DOMAIN poss
        THEN [kind |-> "duplicate", balance |-> bal, positions |-> poss]
        ELSE IF total_cost > bal
        THEN [kind |-> "insufficient", balance |-> bal, positions |-> poss]
        ELSE IF decision.direction = None
        THEN [kind |-> "raised", balance |-> bal - OpenDebit(margin, entry_fee),
              positions |-> poss]
        ELSE [kind |-> "opened", balance |-> bal - OpenDebit(margin, entry_fee),
              positions |-> DictPut(poss, decision.pair,
                              NewPosition(id, decision, current_price, bal))]

\* lines 118-123
ExitPrice(pair, direction, current_price) ==
    IF direction = "LONG"
    THEN MulFrac(current_price, 10000 - Slippage(pair), 10000)
    ELSE MulFrac(current_price, 10000 + Slippage(pair), 10000)

\* lines 125-126
ExitFee(position, exit_price) ==
    MulFrac(Quot(position.quantity * exit_price, 1000), taker_fee, 10000)

\* lines 128-132
RawPnl(position, exit_price) ==
    IF position.direction = "LONG"
    THEN Quot((exit_price - position.entry_price) * position.quantity, 1000)
    ELSE Quot((position.entry_price - exit_price) * position.quantity, 1000)

\* lines 134-135
NetPnl(position, current_price) ==
    LET exit_price == ExitPrice(position.pair, position.direction, current_price)
    IN  RawPnl(position, exit_price) - position.entry_fee
          - ExitFee(position, exit_price) - position.funding_paid

\* a credit that leaves the margin out
CreditWithoutMargin(position, current_price) == NetPnl(position, current_price)

\* line 139: what the call returns to the balance
CloseCredit(position, current_price) ==
    position.margin_used + NetPnl(position, current_price)

\* PaperTrader.close_position up to its await of db.update_trade
\* (lines 111-163), for a pair that has a position
CloseBalance(bal, position, current_price) ==
    bal + CloseCredit(position, current_price)

\* line 177, del self.positions[pair]: the dict afterwards
CloseRemove(poss, pair) == DictDel(poss, pair)

\* PaperTrader.update_position_price, lines 187-204
update_position_price(position, current_price) ==
    [position EXCEPT
        !.current_price = current_price,
        !.highest_price = IF current_price > @ THEN current_price ELSE @,
        !.lowest_price = IF current_price < @ THEN current_price ELSE @,
        !.unrealized_pnl =
            IF position.direction = "LONG"
            THEN Quot((current_price - position.entry_price) * position.quantity, 1000)
                   - position.funding_paid
            ELSE Quot((position.entry_price - current_price) * position.quantity, 1000)
                   - position.funding_paid]

\* funding charged to both directions alike
fundingIgnoringDirection(position, funding_rate) ==
    MulFrac(Quot(position.quantity * position.current_price, 1000),
            funding_rate, 100000)

\* PaperTrader.apply_funding_rate, lines 212-217: the cost of one position
FundingCost(position, funding_rate) ==
    LET notional == Quot(position.quantity * position.current_price, 1000)
    IN  IF position.direction = "LONG"
        THEN MulFrac(notional, funding_rate, 100000)
        ELSE MulFrac(-notional, funding_rate, 100000)

\* PaperTrader.apply_funding_rate, lines 206-224
apply_funding_rate(bal, poss, pair, funding_rate) ==
    IF pair \notin DOMAIN poss
    THEN [cost |-> 0, balance |-> bal, positions |-> poss]
    ELSE LET cost == FundingCost(poss[pair], funding_rate)
         IN  [cost |-> cost, balance |-> bal - cost,
              positions |-> [poss EXCEPT ![pair].funding_paid = @ + cost]]

\* the take profit looked at before the stop loss
checkTakeProfitFirst(position, current_price) ==
    IF position.direction = "LONG"
    THEN IF position.liquidation_price > 0 /\ current_price <= position.liquidation_price
         THEN "liq"
         ELSE IF position.take_profit # 0 /\ current_price >= position.take_profit
         THEN "tp"
         ELSE IF position.stop_loss # 0 /\ current_price <= position.stop_loss
         THEN "sl"
         ELSE "none"
    ELSE IF position.liquidation_price > 0 /\ current_price >= position.liquidation_price
         THEN "liq"
         ELSE IF position.take_profit # 0 /\ current_price <= position.take_profit
         THEN "tp"
         ELSE IF position.stop_loss # 0 /\ current_price >= position.stop_loss
         THEN "sl"
         ELSE "none"

\* PaperTrader.check_stop_loss_take_profit, lines 226-248
check_stop_loss_take_profit(position, current_price) ==
    IF position.direction = "LONG"
    THEN IF position.liquidation_price > 0 /\ current_price <= position.liquidation_price
         THEN "liq"
         ELSE IF position.stop_loss # 0 /\ current_price <= position.stop_loss
         THEN "sl"
         ELSE IF position.take_profit # 0 /\ current_price >= position.take_profit
         THEN "tp"
         ELSE "none"
    ELSE IF position.liquidation_price > 0 /\ current_price >= position.liquidation_price
         THEN "liq"
         ELSE IF position.stop_loss # 0 /\ current_price >= position.stop_loss
         THEN "sl"
         ELSE IF position.take_profit # 0 /\ current_price <= position.take_profit
         THEN "tp"
         ELSE "none"

\* a stop that follows the last price both ways
trailingFollowsPrice(position) ==
    IF ~Truthy(position.trailing_stop_distance) THEN position
    ELSE IF position.direction = "LONG"
    THEN [position EXCEPT !.stop_loss = position.current_price
                                          - position.trailing_stop_distance[1]]
    ELSE [position EXCEPT !.stop_loss = position.current_price
                                          + position.trailing_stop_distance[1]]

\* PaperTrader.update_trailing_stops, lines 250-265
update_trailing_stops(position) ==
    IF ~Truthy(position.trailing_stop_distance) THEN position
    ELSE IF position.direction = "LONG"
    THEN LET new_sl == position.highest_price - position.trailing_stop_distance[1]
         IN  IF new_sl > position.stop_loss
             THEN [position EXCEPT !.stop_loss = new_sl] ELSE position
    ELSE LET new_sl == position.lowest_price + position.trailing_stop_distance[1]
         IN  IF new_sl < position.stop_loss \/ position.stop_loss = 0
             THEN [position EXCEPT !.stop_loss = new_sl] ELSE position

\* PaperTrader.set_trailing_stop, lines 267-272
set_trailing_stop(poss, pair, distance) ==
    IF pair \in DOMAIN poss
    THEN [poss EXCEPT ![pair].trailing_stop_distance = Some(distance)]
    ELSE poss

\* a handler's price update: update_position_price, then update_trailing_stops
PriceUpdate(poss, pair, price) ==
    IF pair \in DOMAIN poss
    THEN [poss EXCEPT ![pair] = update_trailing_stops(update_position_price(@, price))]
    ELSE poss

RECURSIVE SumOver(_, _, _)
SumOver(poss, keys, field) ==
    IF keys = {} THEN 0
    ELSE LET k == CHOOSE x \in keys : TRUE
         IN  poss[k][field] + SumOver(poss, keys \ {k}, field)

\* PaperTrader.total_margin_used, lines 281-283
total_margin_used(poss) == SumOver(poss, DOMAIN poss, "margin_used")

\* PaperTrader.total_equity, lines 274-279
total_equity(bal, poss) ==
    bal + total_margin_used(poss) + SumOver(poss, DOMAIN poss, "unrealized_pnl")

\* PaperTrader.margin_ratio, lines 285-291
margin_ratio(bal, poss) ==
    IF total_equity(bal, poss) <= 0 THEN 1000
    ELSE Quot(total_margin_used(poss) * 1000, total_equity(bal, poss))

\* PaperTrader.drawdown_pct, lines 294-298, in units of 0.001
drawdown_pct(bal, poss, peak) ==
    IF peak = 0 THEN 0
    ELSE Quot((total_equity(bal, poss) - peak) * 1000, peak)

----------------------------------------------------------------------------
(* Inputs of the model: the market and the decision oracle *)

Pairs == {"BTCUSDT", "SOLUSDT"}
Prices == {9000, 10000, 10400}

\* klines <<close, high, low>>
Klines == {<<10000, 10000, 10000>>, <<10000, 10400, 9000>>,
           <<10400, 10400, 10000>>}

\* aggregate trades, and book tickers <<bid, ask>>
TradePrices == {10400}
BookTickers == {<<9600, 10400>>}

\* delays: 15 seconds, 3 minutes
Delays == {1, 12}

\* the latest candle close the analysis loop reads
AnalysisPrices == {10000}

\* snapshot.atr_14
Atrs == {None, Some(40)}

\* What ClaudeTrader.make_decision can return for a pair at a price
\* (claude_trader.py lines 211-236): a parsed decision, whose entry_price
\* falls back to snapshot.price, or HOLD on any failure.
OracleDecisions(pair, price) ==
    { TradeDecision("HOLD", pair, None, None, None, Some(price), None, None, 0),
      TradeDecision("EXIT", pair, None, None, None, Some(price), None, None, 80),
      TradeDecision("ADJUST", pair, None, None, None, Some(price),
                    Some(price - 50), Some(price + 500), 70),
      TradeDecision("ENTER_LONG", pair, Some("LONG"), None, None, Some(price),
                    Some(price - 100), Some(price + 300), 75),
      TradeDecision("ENTER_SHORT", pair, Some("SHORT"), Some(10), Some(15),
                    Some(price), Some(price + 100), Some(price - 300), 75),
      TradeDecision("ENTER_LONG", pair, Some("LONG"), Some(10), Some(5),
                    Some(price), Some(price - 2000), Some(price + 300), 75),
      TradeDecision("ENTER_LONG", pair, Some("LONG"), Some(-2), Some(-5),
                    Some(price), Some(price - 100), Some(price + 300), 75),
      TradeDecision("ENTER_SHORT", pair, None, None, None, Some(price),
                    Some(price + 100), Some(price - 300), 75) }

----------------------------------------------------------------------------
(* risk/circuit_breaker.py *)

\* CircuitBreaker.__init__, lines 15-21
CircuitBreakerInit ==
    [daily_start_equity |-> 0, initial_equity |-> 0, paused_until |-> None,
     stopped_for_day |-> FALSE, full_stop |-> FALSE, today |-> None]

\* datetime.utcnow().strftime("%Y-%m-%d"): the calendar day of an instant
Date(now) == now \div 24

\* timedelta(hours=4), line 88
pause_hours == 4

\* CircuitBreaker.initialize, lines 23-27
initialize(cb, equity, now) ==
    [cb EXCEPT !.initial_equity = equity, !.daily_start_equity = equity,
               !.today = Some(Date(now))]

\* a new day that forgets every stop
check_new_dayClearingAll(cb, equity, now) ==
    IF Some(Date(now)) # cb.today
    THEN [cb EXCEPT !.today = Some(Date(now)), !.daily_start_equity = equity,
                    !.stopped_for_day = FALSE, !.paused_until = None,
                    !.full_stop = FALSE]
    ELSE cb

\* CircuitBreaker.check_new_day, lines 29-37
check_new_day(cb, equity, now) ==
    IF Some(Date(now)) # cb.today
    THEN [cb EXCEPT !.today = Some(Date(now)), !.daily_start_equity = equity,
                    !.stopped_for_day = FALSE, !.paused_until = None]
    ELSE cb

\* the comparison made strict
DrawdownBelow(equity, base, pct) == (equity - base) * 100 < pct * base

\* (equity - base) / base <= pct, for base > 0 (lines 64-65, 75-78, 87)
DrawdownAtMost(equity, base, pct) == (equity - base) * 100 <= pct * base

\* what check returns, and the breaker it leaves
Checked(active, reason, cb) == [active |-> active, reason |-> reason, breaker |-> cb]

\* lines 62-95 of check: the fresh threshold tests, on a breaker with no
\* stored stop and no running pause
FreshTests(cb, current_equity, now) ==
    IF /\ cb.initial_equity > 0
       /\ DrawdownAtMost(current_equity, cb.initial_equity,
                         total_drawdown_stop_pct)
    THEN Checked(TRUE, "FULL STOP: Drawdown", [cb EXCEPT !.full_stop = TRUE])
    ELSE IF /\ cb.daily_start_equity > 0
            /\ DrawdownAtMost(current_equity, cb.daily_start_equity,
                              daily_loss_stop_pct)
    THEN Checked(TRUE, "Day stopped: daily loss",
                 [cb EXCEPT !.stopped_for_day = TRUE])
    ELSE IF /\ cb.daily_start_equity > 0
            /\ DrawdownAtMost(current_equity, cb.daily_start_equity,
                              daily_loss_pause_pct)
            /\ cb.paused_until = None
    THEN Checked(TRUE, "Paused 4h: daily loss",
                 [cb EXCEPT !.paused_until = Some(now + pause_hours)])
    ELSE Checked(FALSE, "", cb)

\* a check that tests the daily loss again after a day stop
checkForgettingStop(cb, current_equity, now) ==
    IF cb.full_stop
    THEN Checked(TRUE, "FULL STOP: Total drawdown exceeded", cb)
    ELSE IF cb.paused_until # None /\ now < cb.paused_until[1]
    THEN Checked(TRUE, "Paused for", cb)
    ELSE FreshTests([cb EXCEPT !.paused_until = None,
                               !.stopped_for_day = FALSE], current_equity, now)

\* a check that leaves a pause that has run out where it is
checkKeepingPause(cb, current_equity, now) ==
    IF cb.full_stop
    THEN Checked(TRUE, "FULL STOP: Total drawdown exceeded", cb)
    ELSE IF cb.stopped_for_day
    THEN Checked(TRUE, "Day stopped: daily loss exceeded", cb)
    ELSE IF cb.paused_until # None /\ now < cb.paused_until[1]
    THEN Checked(TRUE, "Paused for", cb)
    ELSE FreshTests(cb, current_equity, now)

\* a check that tests the thresholds before the stored stops and pause
checkTestingFirst(cb, current_equity, now) ==
    LET fresh == FreshTests([cb EXCEPT !.paused_until = None], current_equity, now)
    IN  IF fresh.active /\ fresh.reason # "Paused 4h: daily loss" THEN fresh
        ELSE IF cb.full_stop
        THEN Checked(TRUE, "FULL STOP: Total drawdown exceeded", cb)
        ELSE IF cb.stopped_for_day
        THEN Checked(TRUE, "Day stopped: daily loss exceeded", cb)
        ELSE IF cb.paused_until # None /\ now < cb.paused_until[1]
        THEN Checked(TRUE, "Paused for", cb)
        ELSE fresh

\* CircuitBreaker.check, lines 39-95
check(cb, current_equity, now) ==
    IF cb.full_stop
    THEN Checked(TRUE, "FULL STOP: Total drawdown exceeded", cb)
    ELSE IF cb.stopped_for_day
    THEN Checked(TRUE, "Day stopped: daily loss exceeded", cb)
    ELSE IF cb.paused_until # None /\ now < cb.paused_until[1]
    THEN Checked(TRUE, "Paused for", cb)
    ELSE FreshTests([cb EXCEPT !.paused_until = None], current_equity, now)

\* CircuitBreaker.reset_full_stop, lines 113-116
reset_full_stop(cb) == [cb EXCEPT !.full_stop = FALSE]

----------------------------------------------------------------------------
(* The engine: core/engine.py, execution/position_manager.py *)

Idle == [pc |-> "idle", pair |-> "", has_position |-> FALSE,
         cb_active |-> FALSE, position |-> None, atr |-> None,
         grace |-> FALSE]

\* TradingEngine.start, lines 85-88: the parameters the optimizer seeded
\* (optimizer.py lines 62-73) are loaded into the risk manager
StartedRiskManager ==
    [RiskManagerInit EXCEPT
        !.params = [max_open_positions |-> Some(max_open_positions),
                    min_score_to_enter |-> Some(min_score_to_enter)]]

\* StreamManager.__init__ followed by start (stream_manager.py lines 20-51):
\* the task of _connect_streams is about to make its first attempt; ws is
\* the local variable of that task, slept the seconds its sleep has lasted
StartedStreamManager ==
    [running |-> TRUE, reconnect_delay |-> 1, pc |-> "connect",
     ws |-> "unbound", slept |-> 0, last |-> "none"]

\* the trades row open_position writes (paper_trader.py lines 89-102)
TradeRow(position) ==
    [pair |-> position.pair, direction |-> position.direction,
     entry_price |-> position.entry_price, quantity |-> position.quantity,
     leverage |-> position.leverage, margin_used |-> position.margin_used,
     entry_fee |-> position.entry_fee, held |-> position.held]

\* db.update_trade(id, {..., "status": "closed"}): the row is open no more
RowClosed(rows, id) == DictDel(rows, id)

\* PositionManager.initialize, lines 28-47: the Position built from a row
RestoredPosition(id, row) ==
    Position(id, row.pair, row.direction, row.entry_price, 0, row.quantity,
             row.leverage, 0, 0, row.margin_used, row.entry_fee, row.held,
             0, 99999900, 0)

\* db.get_open_trades (ORDER BY opened_at DESC) assigned in turn to
\* positions[pair]: the last row of a pair wins
RestoredPositions(rows) ==
    LET pairs == {rows[i].pair : i \in DOMAIN rows}
        last(p) == CHOOSE i \in DOMAIN rows :
                      /\ rows[i].pair = p
                      /\ \A j \in DOMAIN rows : rows[j].pair = p =>
                            \/ rows[i].held > rows[j].held
                            \/ (rows[i].held = rows[j].held /\ i <= j)
    IN  [p \in pairs |-> RestoredPosition(last(p), rows[last(p)])]

Bump(f, k) == DictPut(f, k, IF k \in DOMAIN f THEN f[k] + 1 ELSE 1)

\* PaperTrader(db, initial_balance) (paper_trader.py lines 18-23) and the
\* rest of TradingEngine.__init__ and start, which loads max_open_positions
\* from the stored parameters (engine.py lines 85-88)
Started(initial, max_positions) ==
    /\ balance = initial
    /\ initial_balance = initial
    /\ peak_balance = initial
    /\ positions = <<>>
    /\ db = <<>>
    /\ stream = Idle
    /\ analysis = Idle
    /\ next_id = 0
    /\ restarts = 0
    /\ failures = 0
    /\ credits = <<>>
    /\ returned = <<>>
    /\ pair_cooldown = [p \in Pairs |-> None]
    /\ risk_manager = [StartedRiskManager EXCEPT
                          !.params.max_open_positions = Some(max_positions)]
    /\ v_in = None
    /\ v_out = None
    /\ clock = 0
    /\ fundings = 0
    /\ cycle = <<>>
    /\ position_manager = [today_start |-> Date(clock),
                           today_start_balance |-> balance]
    /\ closed_trades = <<>>
    /\ api_costs = <<>>
    /\ daily_stats = {}
    /\ stream_manager = StartedStreamManager
    /\ closed_ago = [p \in Pairs |-> None]
    /\ circuit_breaker = initialize(CircuitBreakerInit,
                                    total_equity(balance, positions), clock)

Init == Started(settings_initial_balance, max_open_positions)


\* close_position from its first line to its await of db.update_trade
\* (lines 111-163): the balance is credited and the position stays in the dict
CloseBegin(task, poss, pair, current_price, grace) ==
    /\ balance' = CloseBalance(balance, poss[pair], current_price)
    /\ peak_balance' = Max2(peak_balance, balance')
    /\ credits' = Bump(credits, poss[pair].id)
    /\ task' = [Idle EXCEPT !.pc = "close_wait", !.pair = pair,
                            !.position = Some(poss[pair]), !.grace = grace]

\* close_position after db.update_trade returned: del self.positions[pair]
\* (KeyError when the pair is gone), then the caller records the cooldown
\* unless it is the grace-period branch of _on_kline
CloseEnd(task) ==
    LET pair == task.pair
        id == task.position[1].id
    IN  /\ db' = RowClosed(db, id)
        /\ task' = Idle
        /\ IF pair \in DOMAIN positions
           THEN /\ positions' = CloseRemove(positions, pair)
                /\ returned' = Bump(returned, id)
                /\ pair_cooldown' = IF task.grace THEN pair_cooldown
                                    ELSE [pair_cooldown EXCEPT ![pair] = Some(0)]
                /\ closed_ago' = [closed_ago EXCEPT ![pair] = Some(0)]
           ELSE UNCHANGED <<positions, returned, pair_cooldown, closed_ago>>

\* db.update_trade raised: the exception leaves close_position and its caller
CloseFail(task) ==
    /\ failures < MaxFailures
    /\ failures' = failures + 1
    /\ task' = Idle
    /\ UNCHANGED <<db, positions, returned, pair_cooldown, closed_ago>>

\* the favorable extreme of the candle looked at before the adverse one
KlineTriggerFavorableFirst(position, price, high, low) ==
    LET adverse == IF position.direction = "LONG" THEN low ELSE high
        favorable == IF position.direction = "LONG" THEN high ELSE low
        first == check_stop_loss_take_profit(position, favorable)
        second == check_stop_loss_take_profit(position, adverse)
    IN  IF position.held < 1 THEN "none"
        ELSE IF first # "none" THEN first
        ELSE IF second # "none" THEN second
        ELSE check_stop_loss_take_profit(position, price)

\* the level _on_kline closes at, lines 174-216; "none" when nothing triggers
KlineTrigger(position, price, high, low) ==
    IF position.held < 1
    THEN IF \/ /\ position.direction = "LONG"
               /\ position.liquidation_price > 0
               /\ low <= position.liquidation_price
            \/ /\ position.direction = "SHORT"
               /\ position.liquidation_price > 0
               /\ high >= position.liquidation_price
         THEN "liq" ELSE "none"
    ELSE LET adverse == IF position.direction = "LONG" THEN low ELSE high
             favorable == IF position.direction = "LONG" THEN high ELSE low
             first == check_stop_loss_take_profit(position, adverse)
             second == check_stop_loss_take_profit(position, favorable)
         IN  IF first # "none" THEN first
             ELSE IF second # "none" THEN second
             ELSE check_stop_loss_take_profit(position, price)

TriggerLevel(position, trigger) ==
    IF trigger = "liq" THEN position.liquidation_price
    ELSE IF trigger = "sl" THEN position.stop_loss
    ELSE position.take_profit

\* TradingEngine._on_kline, lines 158-216, up to the await inside
\* close_position
OnKline(pair, k) ==
    /\ stream.pc = "idle"
    /\ LET poss == PriceUpdate(positions, pair, k[1])
           trigger == IF pair \in DOMAIN poss
                      THEN KlineTrigger(poss[pair], k[1], k[2], k[3])
                      ELSE "none"
       IN  IF trigger = "none"
           THEN /\ positions' = poss
                /\ UNCHANGED <<balance, peak_balance, credits, stream>>
           ELSE /\ positions' = poss
                /\ CloseBegin(stream, poss, pair,
                              TriggerLevel(poss[pair], trigger),
                              poss[pair].held < 1)
    /\ UNCHANGED <<initial_balance, db, analysis, next_id, restarts, failures,
                   returned, pair_cooldown, risk_manager, v_in, v_out,
                   circuit_breaker, clock, fundings, cycle,
                   position_manager, closed_trades, api_costs, daily_stats,
                   stream_manager, closed_ago>>

\* The connection runs its statements in the order they were submitted
\* (database.py lines 150-172): the insert of a position not yet written
\* comes before the update that closes it
PendingInsert(id) == analysis.pc = "open_wait" /\ analysis.position[1].id = id

\* _on_kline resumes after the persistence write of its close
KlineCloseDone ==
    /\ stream.pc = "close_wait"
    /\ ~PendingInsert(stream.position[1].id)
    /\ CloseEnd(stream)
    /\ UNCHANGED <<balance, initial_balance, peak_balance, analysis,
                   next_id, restarts, failures, credits, risk_manager, v_in, v_out,
                   circuit_breaker, clock, fundings, cycle,
                   position_manager, closed_trades, api_costs, daily_stats,
                   stream_manager>>

KlineCloseFailed ==
    /\ stream.pc = "close_wait"
    /\ CloseFail(stream)
    /\ UNCHANGED <<balance, initial_balance, peak_balance, analysis,
                   next_id, restarts, credits, risk_manager, v_in, v_out,
                   circuit_breaker, clock, fundings, cycle,
                   position_manager, closed_trades, api_costs, daily_stats,
                   stream_manager>>

\* TradingEngine._on_agg_trade, lines 233-241
OnAggTrade(pair, price) ==
    /\ stream.pc = "idle"
    /\ pair \in DOMAIN positions
    /\ positions' = PriceUpdate(positions, pair, price)
    /\ UNCHANGED <<balance, initial_balance, peak_balance, db, stream, analysis,
                   next_id, restarts, failures, credits, returned, pair_cooldown,
                   risk_manager, v_in, v_out,
                   circuit_breaker, clock, fundings, cycle,
                   position_manager, closed_trades, api_costs, daily_stats,
                   stream_manager, closed_ago>>

\* TradingEngine._on_book_ticker, lines 223-231
OnBookTicker(pair, bid, ask) ==
    /\ stream.pc = "idle"
    /\ pair \in DOMAIN positions
    /\ positions' = PriceUpdate(positions, pair, Quot(bid + ask, 2))
    /\ UNCHANGED <<balance, initial_balance, peak_balance, db, stream, analysis,
                   next_id, restarts, failures, credits, returned, pair_cooldown,
                   risk_manager, v_in, v_out,
                   circuit_breaker, clock, fundings, cycle,
                   position_manager, closed_trades, api_costs, daily_stats,
                   stream_manager, closed_ago>>

\* _analyze_pair, lines 366-376: the cooldown of a pair just closed and the
\* minimum hold time of a young position return before any await
ReturnsEarly(pair) ==
    \/ /\ pair \notin DOMAIN positions
       /\ pair_cooldown[pair] # None
       /\ pair_cooldown[pair][1] < 12
    \/ /\ pair \in DOMAIN positions
       /\ positions[pair].held < 12

\* TradingEngine._analyze_pair, lines 357-381: has_position is sampled, the
\* cooldown and the minimum hold time return early, then the task awaits the
\* memory
AnalyzePair(pair) ==
    /\ analysis.pc = "idle"
    /\ ~ReturnsEarly(pair)
    /\ analysis' = [Idle EXCEPT !.pc = "memory_wait", !.pair = pair,
                                !.has_position = pair \in DOMAIN positions]
    /\ cycle' = IF cycle = <<>> THEN cycle ELSE Tail(cycle)
    /\ UNCHANGED <<balance, initial_balance, peak_balance, positions, db, stream,
                   next_id, restarts, failures, credits, returned, pair_cooldown,
                   risk_manager, v_in, v_out,
                   circuit_breaker, clock, fundings,
                   position_manager, closed_trades, api_costs, daily_stats,
                   stream_manager, closed_ago>>

\* _analyze_pair, lines 383-394: the memory has answered; the circuit breaker
\* is checked against the equity of this moment and its answer kept in
\* cb_active, then the task awaits the pattern statistics and the oracle
BreakerSampled ==
    /\ analysis.pc = "memory_wait"
    /\ LET checked == check(circuit_breaker, total_equity(balance, positions),
                            clock)
       IN  /\ circuit_breaker' = checked.breaker
           /\ analysis' = [analysis EXCEPT !.pc = "oracle_wait",
                                           !.cb_active = checked.active]
    /\ UNCHANGED <<balance, initial_balance, peak_balance, positions, db, stream,
                   next_id, restarts, failures, credits, returned, pair_cooldown,
                   risk_manager, v_in, v_out, clock, fundings, cycle,
                   position_manager, closed_trades, api_costs, daily_stats,
                   stream_manager, closed_ago>>

\* TradingEngine.get_status, lines 654-678, called by the status endpoint:
\* it checks the circuit breaker against the equity of the moment
GetStatus ==
    /\ circuit_breaker' = check(circuit_breaker,
                                total_equity(balance, positions), clock).breaker
    /\ UNCHANGED <<balance, initial_balance, peak_balance, positions, db, stream,
                   analysis, next_id, restarts, failures, credits, returned,
                   pair_cooldown, risk_manager, v_in, v_out, clock, fundings, cycle,
                   position_manager, closed_trades, api_costs, daily_stats,
                   stream_manager, closed_ago>>

\* lines 445-452
Adjust(poss, pair, decision) ==
    IF pair \in DOMAIN poss
    THEN [poss EXCEPT
            ![pair].stop_loss = IF Truthy(decision.stop_loss)
                                THEN decision.stop_loss[1] ELSE @,
            ![pair].take_profit = IF Truthy(decision.take_profit)
                                  THEN decision.take_profit[1] ELSE @]
    ELSE poss

\* the oracle's decision taken as it comes
EngineTrusting(decision) == Verdict(TRUE, "")

\* lines 404-412: the validator's verdict on a decision, from the live ledger
\* and the has_position and cb_active sampled before the awaits
EngineValidate(decision) ==
    validate(risk_manager, decision, balance, Cardinality(DOMAIN positions),
             analysis.has_position, analysis.cb_active,
             margin_ratio(balance, positions))

\* _analyze_pair, lines 404-452: validate the decision, then execute it up to
\* the next await; an exception of open_position leaves _analyze_pair and the
\* for loop of _analysis_loop (lines 257-318)
DecideWithin(limit, decision, price, atr) ==
    /\ LET pair == analysis.pair
           verdict == EngineValidate(decision)
           opened == open_position(balance, positions, decision, price,
                                   next_id + 1)
       IN  IF ~verdict.ok \/ decision.action = "HOLD"
           THEN /\ analysis' = Idle
                /\ UNCHANGED <<balance, peak_balance, positions, next_id, credits>>
           ELSE IF decision.action \in EnterActions
           THEN /\ next_id < limit
                /\ balance' = opened.balance
                /\ positions' = opened.positions
                /\ IF opened.kind = "opened"
                   THEN /\ next_id' = next_id + 1
                        /\ analysis' = [Idle EXCEPT !.pc = "open_wait",
                               !.pair = pair, !.atr = atr,
                               !.position = Some(opened.positions[decision.pair])]
                   ELSE /\ next_id' = IF opened.kind = "raised"
                                      THEN next_id + 1 ELSE next_id
                        /\ analysis' = Idle
                /\ UNCHANGED <<peak_balance, credits>>
           ELSE IF decision.action = "EXIT"
           THEN IF pair \in DOMAIN positions
                THEN /\ CloseBegin(analysis, positions, pair, price, FALSE)
                     /\ UNCHANGED <<positions, next_id>>
                ELSE /\ analysis' = Idle
                     /\ UNCHANGED <<balance, peak_balance, positions, next_id,
                                    credits>>
           ELSE /\ positions' = Adjust(positions, pair, decision)
                /\ analysis' = Idle
                /\ UNCHANGED <<balance, peak_balance, next_id, credits>>
    /\ cycle' = IF /\ EngineValidate(decision).ok
                   /\ decision.action \in EnterActions
                   /\ open_position(balance, positions, decision, price,
                                    next_id + 1).kind = "raised"
                THEN <<>> ELSE cycle
    /\ UNCHANGED <<initial_balance, db, stream, restarts, failures, returned,
                   pair_cooldown, risk_manager, circuit_breaker, clock,
                   fundings,
                   position_manager, closed_trades, api_costs, daily_stats,
                   stream_manager, closed_ago>>

\* the model lets the engine open MaxOpens positions in a run
Decide(decision, price, atr) == DecideWithin(MaxOpens, decision, price, atr)

\* _analyze_pair, lines 396-452: the oracle has answered
OracleDecided(decision, price, atr) ==
    /\ analysis.pc = "oracle_wait"
    /\ Decide(decision, price, atr)
    /\ UNCHANGED <<v_in, v_out>>

\* open_position resumes after db.insert_trade and returns the Position;
\* _analyze_pair sets the trailing stop (lines 424-428)
OpenDone ==
    /\ analysis.pc = "open_wait"
    /\ db' = DictPut(db, analysis.position[1].id, TradeRow(analysis.position[1]))
    /\ positions' = IF Truthy(analysis.atr)
                    THEN set_trailing_stop(positions, analysis.pair,
                                           MulFrac(analysis.atr[1], 25, 10))
                    ELSE positions
    /\ analysis' = Idle
    /\ UNCHANGED <<balance, initial_balance, peak_balance, stream, next_id,
                   restarts, failures, credits, returned, pair_cooldown, risk_manager,
                   v_in, v_out,
                   circuit_breaker, clock, fundings, cycle,
                   position_manager, closed_trades, api_costs, daily_stats,
                   stream_manager, closed_ago>>

\* db.insert_trade raised: the exception leaves open_position, _analyze_pair
\* and the for loop of _analysis_loop
OpenFailed ==
    /\ analysis.pc = "open_wait"
    /\ failures < MaxFailures
    /\ failures' = failures + 1
    /\ analysis' = Idle
    /\ cycle' = <<>>
    /\ UNCHANGED <<balance, initial_balance, peak_balance, positions, db, stream,
                   next_id, restarts, credits, returned, pair_cooldown,
                   risk_manager, v_in, v_out,
                   circuit_breaker, clock, fundings,
                   position_manager, closed_trades, api_costs, daily_stats,
                   stream_manager, closed_ago>>

\* _analyze_pair resumes after the persistence write of its EXIT
ExitCloseDone ==
    /\ analysis.pc = "close_wait"
    /\ CloseEnd(analysis)
    /\ UNCHANGED <<balance, initial_balance, peak_balance, stream, next_id,
                   restarts, failures, credits, risk_manager, v_in, v_out,
                   circuit_breaker, clock, fundings, cycle,
                   position_manager, closed_trades, api_costs, daily_stats,
                   stream_manager>>

ExitCloseFailed ==
    /\ analysis.pc = "close_wait"
    /\ CloseFail(analysis)
    /\ cycle' = <<>>
    /\ UNCHANGED <<balance, initial_balance, peak_balance, stream, next_id,
                   restarts, credits, risk_manager, v_in, v_out,
                   circuit_breaker, clock, fundings,
                   position_manager, closed_trades, api_costs, daily_stats,
                   stream_manager>>

\* time passes: d units more have elapsed since every stored instant
Elapse(x, d) == IF x + d > 12 THEN 12 ELSE x + d
Aged(task, d) ==
    IF task.position = None THEN task
    ELSE [task EXCEPT !.position = Some([@[1] EXCEPT !.held = Elapse(@, d)])]

\* the instants stored: of the positions, the rows, the cooldowns
Elapsed ==
    {positions[p].held : p \in DOMAIN positions}
      \cup {db[i].held : i \in DOMAIN db}
      \cup {pair_cooldown[p][1] : p \in {q \in Pairs : pair_cooldown[q] # None}}

\* A delay that some comparison of the program can tell: a short one while
\* an instant is less than 15 seconds old, a long one while one is less than
\* 3 minutes old
Tick(d) ==
    /\ \E e \in Elapsed : e < d
    /\ positions' = [p \in DOMAIN positions |->
                        [positions[p] EXCEPT !.held = Elapse(@, d)]]
    /\ db' = [i \in DOMAIN db |-> [db[i] EXCEPT !.held = Elapse(@, d)]]
    /\ pair_cooldown' = [p \in Pairs |->
                            IF pair_cooldown[p] = None THEN None
                            ELSE Some(Elapse(pair_cooldown[p][1], d))]
    /\ closed_ago' = [p \in Pairs |->
                         IF closed_ago[p] = None THEN None
                         ELSE Some(Elapse(closed_ago[p][1], d))]
    /\ stream' = Aged(stream, d)
    /\ analysis' = Aged(analysis, d)
    /\ UNCHANGED <<balance, initial_balance, peak_balance, next_id, restarts, failures,
                   credits, returned, risk_manager, v_in, v_out,
                   circuit_breaker, clock, fundings, cycle,
                   position_manager, closed_trades, api_costs, daily_stats,
                   stream_manager>>

\* The process is stopped and started again: PaperTrader.__init__
\* (paper_trader.py lines 18-23), TradingEngine.__init__ and
\* PositionManager.initialize, which reads the day's starting equity (line
\* 26) before it puts the open rows back into the ledger (lines 28-46)
Restart ==
    /\ restarts < MaxRestarts
    /\ restarts' = restarts + 1
    /\ balance' = settings_initial_balance
    /\ initial_balance' = settings_initial_balance
    /\ peak_balance' = settings_initial_balance
    /\ positions' = RestoredPositions(db)
    /\ pair_cooldown' = [p \in Pairs |-> None]
    /\ risk_manager' = StartedRiskManager
    /\ stream' = Idle
    /\ analysis' = Idle
    /\ circuit_breaker' = initialize(CircuitBreakerInit,
                                     total_equity(balance', positions'), clock)
    /\ position_manager' = [today_start |-> Date(clock),
                            today_start_balance |->
                                total_equity(balance', <<>>)]
    /\ stream_manager' = StartedStreamManager
    /\ UNCHANGED <<db, next_id, failures, credits, returned, v_in, v_out,
                   clock, fundings, cycle, closed_trades, api_costs,
                   daily_stats, closed_ago>>

Next ==
    \/ \E pair \in Pairs, k \in Klines : OnKline(pair, k)
    \/ KlineCloseDone
    \/ KlineCloseFailed
    \/ \E pair \in Pairs, price \in TradePrices : OnAggTrade(pair, price)
    \/ \E pair \in Pairs, b \in BookTickers : OnBookTicker(pair, b[1], b[2])
    \/ \E pair \in Pairs : AnalyzePair(pair)
    \/ BreakerSampled
    \/ GetStatus
    \/ \E price \in AnalysisPrices, atr \in Atrs :
          \E decision \in OracleDecisions(analysis.pair, price) :
             OracleDecided(decision, price, atr)
    \/ OpenDone
    \/ OpenFailed
    \/ ExitCloseDone
    \/ ExitCloseFailed
    \/ \E d \in Delays : Tick(d)
    \/ Restart

Spec == Init /\ [][Next]_vars

----------------------------------------------------------------------------
(* The analysis task with status requests and price updates, in a process
   started on a database that holds an open trade of an earlier run *)

\* the row the earlier run wrote: a SHORT of BTCUSDT at 100.00, leverage 10,
\* 1.5% of the balance, opened more than 3 minutes ago
EarlierRow ==
    LET decision == TradeDecision("ENTER_SHORT", "BTCUSDT", Some("SHORT"),
                                  Some(10), Some(15), Some(10000),
                                  Some(10100), Some(9700), 75)
        opened == open_position(settings_initial_balance, <<>>, decision,
                                10000, 0)
    IN  [TradeRow(opened.positions["BTCUSDT"]) EXCEPT !.held = 12]

\* the trade prices of the pair after the start: unchanged, or 20% higher
GatePrices == {10000, 12000}

\* a candle <<close, high, low>> that closes 20% higher
GateKlines == {<<12000, 12000, 10000>>}

\* TradingEngine.start, lines 85-94, on that database
InitGate ==
    /\ balance = settings_initial_balance
    /\ initial_balance = settings_initial_balance
    /\ peak_balance = settings_initial_balance
    /\ db = [i \in {0} |-> EarlierRow]
    /\ positions = RestoredPositions(db)
    /\ stream = Idle
    /\ analysis = Idle
    /\ next_id = 0
    /\ restarts = 0
    /\ failures = 0
    /\ credits = <<>>
    /\ returned = <<>>
    /\ pair_cooldown = [p \in Pairs |-> None]
    /\ risk_manager = StartedRiskManager
    /\ v_in = None
    /\ v_out = None
    /\ clock = 0
    /\ fundings = 0
    /\ cycle = <<>>
    /\ position_manager = [today_start |-> Date(clock),
                           today_start_balance |-> balance]
    /\ closed_trades = <<>>
    /\ api_costs = <<>>
    /\ daily_stats = {}
    /\ stream_manager = StartedStreamManager
    /\ closed_ago = [p \in Pairs |-> None]
    /\ circuit_breaker = initialize(CircuitBreakerInit,
                                    total_equity(balance, positions), clock)

NextGate ==
    \/ \E pair \in Pairs : AnalyzePair(pair)
    \/ BreakerSampled
    \/ GetStatus
    \/ \E price \in GatePrices, atr \in Atrs :
          \E decision \in OracleDecisions(analysis.pair, price) :
             OracleDecided(decision, price, atr)
    \/ OpenDone
    \/ ExitCloseDone
    \/ \E pair \in Pairs, price \in GatePrices : OnAggTrade(pair, price)
    \/ \E pair \in Pairs, k \in GateKlines : OnKline(pair, k)
    \/ KlineCloseDone

SpecGate == InitGate /\ [][NextGate]_vars

----------------------------------------------------------------------------
(* The ledger's calls one at a time, each run to its return: the contracts
   of PaperTrader.open_position and PaperTrader.close_position *)

\* the Trade close_position builds and returns, lines 145-163
Trade(position, current_price) ==
    LET exit_price == ExitPrice(position.pair, position.direction, current_price)
    IN  [id |-> position.id, pair |-> position.pair,
         exit_price |-> exit_price,
         pnl |-> NetPnl(position, current_price),
         entry_fee |-> position.entry_fee,
         exit_fee |-> ExitFee(position, exit_price),
         margin_used |-> position.margin_used]

\* the row of the trade once db.update_trade has stored its exit with status
\* 'closed' (lines 165-174); closed_at is kept as the calendar day, which
\* is all compute_daily_stats reads of it
ClosedRow(trade, now) ==
    [id |-> trade.id, pair |-> trade.pair, pnl |-> trade.pnl,
     entry_fee |-> trade.entry_fee, exit_fee |-> trade.exit_fee,
     closed_at |-> Date(now)]

\* the decisions that reach open_position
EntryDecisions(pair, price) ==
    {d \in OracleDecisions(pair, price) : d.action \in EnterActions}

\* await open_position(decision, current_price), lines 25-109; v_in holds the
\* arguments and v_out what the call returned
OpenPosition(decision, current_price) ==
    /\ next_id < MaxEntries
    /\ LET opened == open_position(balance, positions, decision, current_price,
                                   next_id + 1)
       IN  /\ balance' = opened.balance
           /\ positions' = opened.positions
           /\ v_in' = Some([call |-> "open_position", decision |-> decision,
                            current_price |-> current_price])
           /\ IF opened.kind = "opened"
              THEN /\ next_id' = next_id + 1
                   /\ db' = DictPut(db, next_id + 1,
                                    TradeRow(opened.positions[decision.pair]))
                   /\ v_out' = Some(opened.positions[decision.pair])
              ELSE /\ next_id' = IF opened.kind = "raised"
                                 THEN next_id + 1 ELSE next_id
                   /\ v_out' = None
                   /\ UNCHANGED db
    /\ UNCHANGED <<initial_balance, peak_balance, stream, analysis, restarts,
                   failures, credits, returned, pair_cooldown, risk_manager,
                   circuit_breaker, clock, fundings, cycle,
                   position_manager, closed_trades, api_costs, daily_stats,
                   stream_manager, closed_ago>>

\* await close_position(pair, current_price), lines 111-185
ClosePosition(pair, current_price) ==
    IF pair \in DOMAIN positions
    THEN /\ balance' = CloseBalance(balance, positions[pair], current_price)
         /\ peak_balance' = Max2(peak_balance, balance')
         /\ db' = RowClosed(db, positions[pair].id)
         /\ positions' = CloseRemove(positions, pair)
         /\ credits' = Bump(credits, positions[pair].id)
         /\ returned' = Bump(returned, positions[pair].id)
         /\ v_in' = Some([call |-> "close_position", pair |-> pair,
                          current_price |-> current_price])
         /\ v_out' = Some(Trade(positions[pair], current_price))
         /\ closed_trades' = Append(closed_trades,
                                    ClosedRow(Trade(positions[pair], current_price),
                                              clock))
         /\ closed_ago' = [closed_ago EXCEPT ![pair] = Some(0)]
         /\ UNCHANGED <<initial_balance, stream, analysis, next_id, restarts,
                        failures, pair_cooldown, risk_manager,
                        circuit_breaker, clock, fundings, cycle,
                        position_manager, api_costs, daily_stats,
                        stream_manager>>
    ELSE /\ v_in' = Some([call |-> "close_position", pair |-> pair,
                          current_price |-> current_price])
         /\ v_out' = None
         /\ UNCHANGED <<balance, initial_balance, peak_balance, positions, db,
                        stream, analysis, next_id, restarts, failures, credits,
                        returned, pair_cooldown, risk_manager,
                   circuit_breaker, clock, fundings, cycle,
                   position_manager, closed_trades, api_costs, daily_stats,
                   stream_manager, closed_ago>>

\* update_position_price(pair, price) and update_trailing_stops(), as the
\* stream handlers call them (engine.py lines 170-172)
UpdatePrice(pair, price) ==
    /\ pair \in DOMAIN positions
    /\ positions' = PriceUpdate(positions, pair, price)
    /\ UNCHANGED <<balance, initial_balance, peak_balance, db, stream, analysis,
                   next_id, restarts, failures, credits, returned,
                   pair_cooldown, risk_manager, v_in, v_out,
                   circuit_breaker, clock, fundings, cycle,
                   position_manager, closed_trades, api_costs, daily_stats,
                   stream_manager, closed_ago>>

NextLedger ==
    \/ \E pair \in Pairs, price \in AnalysisPrices :
          \E decision \in EntryDecisions(pair, price) :
             OpenPosition(decision, price)
    \/ \E pair \in Pairs, price \in Prices : ClosePosition(pair, price)
    \/ \E pair \in Pairs, price \in TradePrices : UpdatePrice(pair, price)

SpecLedger == Init /\ [][NextLedger]_vars

----------------------------------------------------------------------------
(* The analysis loop pair by pair, with the oracle's call and the klines *)

\* the ways client.messages.create and the parsing of its text fail
\* (claude_trader.py lines 184-236)
OracleFailures ==
    {"api_error", "timeout", "unparsable", "malformed", "unknown_action",
     "unknown_direction"}

\* what the call gives: a failure, or a text that parses into the fields of a
\* HOLD, an EXIT or an ENTER_SHORT (with a direction, and without one)
Responses(pair, price) ==
    {[kind |-> k, data |-> None] : k \in OracleFailures}
       \cup {[kind |-> "ok", data |-> Some(d)] :
                d \in {o \in OracleDecisions(pair, price) :
                          o.action \in {"HOLD", "EXIT", "ENTER_SHORT"}}}

\* a failure answered with an entry
decisionDespiteFailure(response, pair, price) ==
    TradeDecision("ENTER_LONG", pair, Some("LONG"), None, None, Some(price),
                  None, None, 75)

\* ClaudeTrader.make_decision, lines 184-236: the decision built from the
\* text, or HOLD from either except clause
make_decision(response, pair, price) ==
    IF response.kind = "ok"
    THEN [response.data[1] EXCEPT !.entry_price = Some(OrElse(@, price))]
    ELSE TradeDecision("HOLD", pair, None, None, None, None, None, None, 0)

\* _analysis_loop, lines 257-297: a pass begins, the pairs in the order of
\* their signal scores
CycleBegin(order) ==
    /\ analysis.pc = "idle"
    /\ cycle = <<>>
    /\ cycle' = order
    /\ UNCHANGED <<balance, initial_balance, peak_balance, positions, db, stream,
                   analysis, next_id, restarts, failures, credits, returned,
                   pair_cooldown, risk_manager, v_in, v_out, circuit_breaker,
                   clock, fundings,
                   position_manager, closed_trades, api_costs, daily_stats,
                   stream_manager, closed_ago>>

\* lines 300-306: _analyze_pair of the next pair returned before any await
SkipPair ==
    /\ analysis.pc = "idle"
    /\ cycle # <<>>
    /\ ReturnsEarly(Head(cycle))
    /\ cycle' = Tail(cycle)
    /\ UNCHANGED <<balance, initial_balance, peak_balance, positions, db, stream,
                   analysis, next_id, restarts, failures, credits, returned,
                   pair_cooldown, risk_manager, v_in, v_out, circuit_breaker,
                   clock, fundings,
                   position_manager, closed_trades, api_costs, daily_stats,
                   stream_manager, closed_ago>>

\* make_decision, lines 184-189: the pattern statistics have answered and the
\* task is inside client.messages.create, a call of the synchronous client
\* (line 153) that does not yield to the event loop
OracleCalled ==
    /\ analysis.pc = "oracle_wait"
    /\ analysis' = [analysis EXCEPT !.pc = "oracle_call"]
    /\ UNCHANGED <<balance, initial_balance, peak_balance, positions, db, stream,
                   next_id, restarts, failures, credits, returned,
                   pair_cooldown, risk_manager, v_in, v_out, circuit_breaker,
                   clock, fundings, cycle,
                   position_manager, closed_trades, api_costs, daily_stats,
                   stream_manager, closed_ago>>

\* the call returns: when it raised, make_decision returns HOLD at once and
\* _analyze_pair goes on to line 404; otherwise it awaits insert_api_cost
\* (line 197) before it parses the text
OracleReturned(response, price, atr) ==
    /\ analysis.pc = "oracle_call"
    /\ v_in' = Some([call |-> "make_decision", response |-> response])
    /\ v_out' = v_out
    /\ IF response.kind \in {"api_error", "timeout"}
       THEN Decide(make_decision(response, analysis.pair, price), price, atr)
       ELSE /\ analysis' = [analysis EXCEPT !.pc = "cost_wait"]
            /\ UNCHANGED <<balance, initial_balance, peak_balance, positions,
                           db, stream, next_id, restarts, failures, credits,
                           returned, pair_cooldown, risk_manager,
                           circuit_breaker, clock, fundings, cycle,
                           position_manager, closed_trades, api_costs, daily_stats,
                           stream_manager, closed_ago>>

\* insert_api_cost has answered: the text is parsed (lines 207-236) and
\* _analyze_pair goes on to line 404
CostRecorded(price, atr) ==
    /\ analysis.pc = "cost_wait"
    /\ Decide(make_decision(v_in[1].response, analysis.pair, price), price, atr)
    /\ UNCHANGED <<v_in, v_out>>

\* the event loop is free to run another task: no task is inside a
\* synchronous call
Running == analysis.pc # "oracle_call"

NextLoop ==
    \/ \E order \in {<<"BTCUSDT", "SOLUSDT">>, <<"SOLUSDT", "BTCUSDT">>} :
          CycleBegin(order)
    \/ cycle # <<>> /\ AnalyzePair(Head(cycle))
    \/ SkipPair
    \/ BreakerSampled
    \/ OracleCalled
    \/ \E price \in AnalysisPrices :
          \E response \in Responses(analysis.pair, price) :
             OracleReturned(response, price, None)
    \/ \E price \in AnalysisPrices : CostRecorded(price, None)
    \/ OpenDone
    \/ OpenFailed
    \/ ExitCloseDone
    \/ Running /\ \E pair \in Pairs, k \in GateKlines : OnKline(pair, k)
    \/ Running /\ KlineCloseDone
    \/ Running /\ \E d \in Delays : Tick(d)

SpecLoop == Init /\ [][NextLoop]_vars

----------------------------------------------------------------------------
(* The ledger with funding: opens, price updates, funding applications and *)
(* closes of one PaperTrader                                               *)

\* the proportional rates that _funding_rate_loop passes (engine.py lines
\* 500-508): 0.01% either way
FundingRates == {-10, 10}

\* apply_funding_rate(pair, funding_rate), lines 206-224; v_out holds the
\* cost the call returned
ApplyFundingRate(pair, funding_rate) ==
    /\ fundings < MaxFundings
    /\ fundings' = fundings + 1
    /\ LET applied == apply_funding_rate(balance, positions, pair, funding_rate)
       IN  /\ balance' = applied.balance
           /\ positions' = applied.positions
           /\ v_in' = Some([call |-> "apply_funding_rate", pair |-> pair,
                            funding_rate |-> funding_rate])
           /\ v_out' = Some(applied.cost)
    /\ UNCHANGED <<initial_balance, peak_balance, db, stream, analysis, next_id,
                   restarts, failures, credits, returned, pair_cooldown,
                   risk_manager, circuit_breaker, clock, cycle,
                   position_manager, closed_trades, api_costs, daily_stats,
                   stream_manager, closed_ago>>

NextAccount ==
    \/ \E pair \in Pairs, price \in AnalysisPrices :
          \E decision \in EntryDecisions(pair, price) :
             next_id < MaxOpens /\ OpenPosition(decision, price)
    \/ \E pair \in Pairs, price \in AnalysisPrices \cup TradePrices :
          ClosePosition(pair, price)
    \/ \E pair \in Pairs, price \in TradePrices : UpdatePrice(pair, price)
    \/ \E pair \in Pairs, rate \in FundingRates : ApplyFundingRate(pair, rate)

SpecAccount == Init /\ [][NextAccount]_vars

----------------------------------------------------------------------------
(* The ledger of a small account: PaperTrader(db, initial_balance) with 50
   USDT, where an entry can ask for more than the balance and a loss can
   exceed it *)

small_initial_balance == 50000

\* an entry sized at the whole balance: margin + fee exceeds the balance
Oversized(pair, price) ==
    TradeDecision("ENTER_LONG", pair, Some("LONG"), Some(3), Some(1000),
                  Some(price), Some(price - 100), Some(price + 300), 75)

NextSmall ==
    \/ \E pair \in Pairs, price \in AnalysisPrices :
          \E decision \in {d \in EntryDecisions(pair, price) : d.leverage = Some(max_leverage)}
                              \cup {Oversized(pair, price)} :
             OpenPosition(decision, price)
    \/ \E pair \in Pairs, price \in {10000, 80000} : ClosePosition(pair, price)
    \/ \E pair \in Pairs, rate \in FundingRates : ApplyFundingRate(pair, rate)

SpecSmall ==
    Started(small_initial_balance, max_open_positions) /\ [][NextSmall]_vars

----------------------------------------------------------------------------
(* The circuit breaker's calls one at a time, over hours and days *)

MaxClock == 26

\* the equities passed to the calls; the breaker starts at 1000.000
StartEquity == 1000000
BreakerEquities == {1000000, 990000, 980000, 975000, 970000, 920000, 900000, 0}

\* CircuitBreaker() and initialize(equity), as TradingEngine.start runs them
InitBreaker ==
    /\ balance = settings_initial_balance
    /\ initial_balance = settings_initial_balance
    /\ peak_balance = settings_initial_balance
    /\ positions = <<>>
    /\ db = <<>>
    /\ stream = Idle
    /\ analysis = Idle
    /\ next_id = 0
    /\ restarts = 0
    /\ failures = 0
    /\ credits = <<>>
    /\ returned = <<>>
    /\ pair_cooldown = [p \in Pairs |-> None]
    /\ risk_manager = StartedRiskManager
    /\ v_in = None
    /\ v_out = None
    /\ clock = 0
    /\ fundings = 0
    /\ cycle = <<>>
    /\ position_manager = [today_start |-> Date(clock),
                           today_start_balance |-> balance]
    /\ closed_trades = <<>>
    /\ api_costs = <<>>
    /\ daily_stats = {}
    /\ stream_manager = StartedStreamManager
    /\ closed_ago = [p \in Pairs |-> None]
    /\ circuit_breaker = initialize(CircuitBreakerInit, StartEquity, clock)

BreakerCall(call, equity) == Some([call |-> call, equity |-> equity])

\* check(current_equity); v_in holds the call and v_out what it returned
Check(equity) ==
    /\ LET checked == check(circuit_breaker, equity, clock)
       IN  /\ circuit_breaker' = checked.breaker
           /\ v_out' = Some([active |-> checked.active,
                             reason |-> checked.reason])
    /\ v_in' = BreakerCall("check", equity)
    /\ UNCHANGED <<balance, initial_balance, peak_balance, positions, db, stream,
                   analysis, next_id, restarts, failures, credits, returned,
                   pair_cooldown, risk_manager, clock, fundings, cycle,
                   position_manager, closed_trades, api_costs, daily_stats,
                   stream_manager, closed_ago>>

\* the property is_active, lines 97-101
IsActive == Check(circuit_breaker.daily_start_equity)

\* check_new_day(equity)
CheckNewDay(equity) ==
    /\ circuit_breaker' = check_new_day(circuit_breaker, equity, clock)
    /\ v_in' = BreakerCall("check_new_day", equity)
    /\ v_out' = None
    /\ UNCHANGED <<balance, initial_balance, peak_balance, positions, db, stream,
                   analysis, next_id, restarts, failures, credits, returned,
                   pair_cooldown, risk_manager, clock, fundings, cycle,
                   position_manager, closed_trades, api_costs, daily_stats,
                   stream_manager, closed_ago>>

\* reset_full_stop()
ResetFullStop ==
    /\ circuit_breaker' = reset_full_stop(circuit_breaker)
    /\ v_in' = BreakerCall("reset_full_stop", 0)
    /\ v_out' = None
    /\ UNCHANGED <<balance, initial_balance, peak_balance, positions, db, stream,
                   analysis, next_id, restarts, failures, credits, returned,
                   pair_cooldown, risk_manager, clock, fundings, cycle,
                   position_manager, closed_trades, api_costs, daily_stats,
                   stream_manager, closed_ago>>

\* h hours pass with no call of the breaker; the calls are 2 hours apart
ClockAdvance(h) ==
    /\ clock + h <= MaxClock
    /\ clock' = clock + h
    /\ v_in' = None
    /\ v_out' = None
    /\ UNCHANGED <<balance, initial_balance, peak_balance, positions, db, stream,
                   analysis, next_id, restarts, failures, credits, returned,
                   pair_cooldown, risk_manager, circuit_breaker, fundings, cycle,
                   position_manager, closed_trades, api_costs, daily_stats,
                   stream_manager, closed_ago>>

NextBreaker ==
    \/ \E equity \in BreakerEquities : Check(equity)
    \/ IsActive
    \/ \E equity \in BreakerEquities : CheckNewDay(equity)
    \/ ResetFullStop
    \/ ClockAdvance(2)

SpecBreaker == InitBreaker /\ [][NextBreaker]_vars

----------------------------------------------------------------------------
(* The triggers of a position: price updates and trailing-stop updates in
   any sequence, then check_stop_loss_take_profit called on its own or the
   evaluation _on_kline makes of a candle *)

TriggerPrices == {8900, 9000, 9600, 10000, 10400, 11000, 11100}
\* <<close, high, low>>
TriggerKlines ==
    {<<10000, 10000, 10000>>, <<10000, 10400, 9400>>, <<10000, 11100, 8900>>,
     <<10400, 10400, 10000>>, <<9600, 10000, 9400>>}
\* the prices of the updates before the check
TrailingPrices == {9600, 10000, 10400}

\* a position entered at 100.00 whose levels are as open_position, a restart
\* (levels 0) or an ADJUST left them, with and without a trailing stop, in
\* and past its grace period
TriggerPositions ==
    {[Position(1, "BTCUSDT", direction, 10000, 10000, 7500, 3, stop_loss,
               take_profit, 25000, 37, held, 10000, 10000, liquidation_price)
         EXCEPT !.trailing_stop_distance = distance] :
       direction \in {"LONG", "SHORT"}, stop_loss \in {0, 9500, 10500},
       take_profit \in {0, 9700, 10300}, held \in {0, 12},
       liquidation_price \in {0, 9000, 11000}, distance \in {None, Some(100)}}

TriggerCalls ==
    {[call |-> "check_stop_loss_take_profit", pair |-> "BTCUSDT", price |-> p,
      high |-> p, low |-> p] : p \in TriggerPrices}
      \cup {[call |-> "_on_kline", pair |-> "BTCUSDT", price |-> k[1],
             high |-> k[2], low |-> k[3]] : k \in TriggerKlines}

InitTrigger ==
    /\ balance = settings_initial_balance
    /\ initial_balance = settings_initial_balance
    /\ peak_balance = settings_initial_balance
    /\ positions \in {<<>>} \cup {[p \in {"BTCUSDT"} |-> position] :
                                      position \in TriggerPositions}
    /\ db = <<>>
    /\ stream = Idle
    /\ analysis = Idle
    /\ next_id = 0
    /\ restarts = 0
    /\ failures = 0
    /\ credits = <<>>
    /\ returned = <<>>
    /\ pair_cooldown = [p \in Pairs |-> None]
    /\ risk_manager = StartedRiskManager
    /\ v_in \in {Some(c) : c \in TriggerCalls}
    /\ v_out = None
    /\ clock = 0
    /\ fundings = 0
    /\ cycle = <<>>
    /\ position_manager = [today_start |-> Date(clock),
                           today_start_balance |-> balance]
    /\ closed_trades = <<>>
    /\ api_costs = <<>>
    /\ daily_stats = {}
    /\ stream_manager = StartedStreamManager
    /\ closed_ago = [p \in Pairs |-> None]
    /\ circuit_breaker = initialize(CircuitBreakerInit,
                                    total_equity(balance, positions), clock)

\* the call check_stop_loss_take_profit(pair, current_price), lines 226-248
CheckTrigger ==
    /\ v_out = None
    /\ v_in[1].call = "check_stop_loss_take_profit"
    /\ v_out' = Some(IF v_in[1].pair \in DOMAIN positions
                     THEN check_stop_loss_take_profit(positions[v_in[1].pair],
                                                      v_in[1].price)
                     ELSE "none")
    /\ UNCHANGED <<balance, initial_balance, peak_balance, positions, db, stream,
                   analysis, next_id, restarts, failures, credits, returned,
                   pair_cooldown, risk_manager, v_in, circuit_breaker, clock, fundings, cycle,
                   position_manager, closed_trades, api_costs, daily_stats,
                   stream_manager, closed_ago>>

\* _on_kline from its first line to its trigger, lines 158-203: the price
\* update, the trailing stop, then the trigger of the candle
EvaluateKline ==
    /\ v_out = None
    /\ v_in[1].call = "_on_kline"
    /\ positions' = PriceUpdate(positions, v_in[1].pair, v_in[1].price)
    /\ v_out' = Some(IF v_in[1].pair \in DOMAIN positions
                     THEN KlineTrigger(positions'[v_in[1].pair], v_in[1].price,
                                       v_in[1].high, v_in[1].low)
                     ELSE "none")
    /\ UNCHANGED <<balance, initial_balance, peak_balance, db, stream,
                   analysis, next_id, restarts, failures, credits, returned,
                   pair_cooldown, risk_manager, v_in, circuit_breaker, clock, fundings, cycle,
                   position_manager, closed_trades, api_costs, daily_stats,
                   stream_manager, closed_ago>>

\* the call update_position_price(pair, price) made before the check
PriceMoved(pair, price) ==
    /\ v_out = None
    /\ pair \in DOMAIN positions
    /\ positions' = [positions EXCEPT ![pair] = update_position_price(@, price)]
    /\ UNCHANGED <<balance, initial_balance, peak_balance, db, stream,
                   analysis, next_id, restarts, failures, credits, returned,
                   pair_cooldown, risk_manager, v_in, v_out, circuit_breaker,
                   clock, fundings, cycle,
                   position_manager, closed_trades, api_costs, daily_stats,
                   stream_manager, closed_ago>>

\* the call update_trailing_stops(pair) made before the check
TrailingUpdated(pair) ==
    /\ v_out = None
    /\ pair \in DOMAIN positions
    /\ positions' = [positions EXCEPT ![pair] = update_trailing_stops(@)]
    /\ UNCHANGED <<balance, initial_balance, peak_balance, db, stream,
                   analysis, next_id, restarts, failures, credits, returned,
                   pair_cooldown, risk_manager, v_in, v_out, circuit_breaker,
                   clock, fundings, cycle,
                   position_manager, closed_trades, api_costs, daily_stats,
                   stream_manager, closed_ago>>

NextTrigger ==
    \/ CheckTrigger
    \/ EvaluateKline
    \/ \E pair \in Pairs, price \in TrailingPrices : PriceMoved(pair, price)
    \/ \E pair \in Pairs : TrailingUpdated(pair)

SpecTrigger == InitTrigger /\ [][NextTrigger]_vars

----------------------------------------------------------------------------
(* Properties of the ledger's contracts, under SpecLedger *)

\* C1: every open_position call that returns a Position had margin_used +
\* entry_fee within the balance before the call, takes exactly margin_used +
\* entry_fee from the balance, and changes no other position and no peak
\* balance.
C1_OpenContract ==
    [][(next_id' = next_id + 1 /\ v_out' # None) =>
          LET position == v_out'[1]
          IN  /\ position.margin_used + position.entry_fee <= balance
              /\ balance' = balance - position.margin_used - position.entry_fee
              /\ peak_balance' = peak_balance
              /\ position.pair \notin DOMAIN positions
              /\ DOMAIN positions' = DOMAIN positions \cup {position.pair}
              /\ positions'[position.pair] = position
              /\ \A p \in DOMAIN positions : positions'[p] = positions[p]]_vars

\* an open_position call has returned a Position while another position is open
C1_Opened ==
    /\ v_in # None
    /\ v_in[1].call = "open_position"
    /\ v_out # None
    /\ Cardinality(DOMAIN positions) = 2
    /\ balance < settings_initial_balance

----------------------------------------------------------------------------
(* Properties of the engine, under Spec *)

\* C3: each opened position is closed once: while no persistence write has
\* failed and the process has not been restarted, whatever the interleaving
\* of _on_kline and the analysis loop's EXIT, margin_used + net_pnl is
\* credited at most once per position and at most one Trade is returned for it.
C3_ClosedOnce ==
    (failures = 0 /\ restarts = 0) =>
        /\ \A id \in DOMAIN credits : credits[id] <= 1
        /\ \A id \in DOMAIN returned : returned[id] <= 1

\* the close_position call of a task is between its credit and its return
Closing(task, id) == task.pc = "close_wait" /\ task.position[1].id = id

\* C4: a failed persistence write leaves the ledger as a successful one does:
\* within one run of the process, a position whose margin and net_pnl have
\* been credited is out of the open set once no close_position call on it is
\* still under way.
C4_CreditedIsRemoved ==
    restarts = 0 =>
        \A pair \in DOMAIN positions :
            LET id == positions[pair].id
            IN  (id \in DOMAIN credits) => (Closing(stream, id) \/ Closing(analysis, id))

\* C5: every open position has margin_used > 0 and quantity > 0.
C5_PositiveMarginQuantity ==
    \A pair \in DOMAIN positions :
        positions[pair].margin_used > 0 /\ positions[pair].quantity > 0

\* C6: every open position's liquidation_price is on the adverse side of its
\* entry_price: below it for LONG, above it for SHORT. Stated of the positions
\* of leverage 1 or more, opened or restored.
C6_LiquidationAdverse ==
    \A pair \in DOMAIN positions :
        LET position == positions[pair]
        IN  position.leverage >= 1 =>
                IF position.direction = "LONG"
                THEN position.liquidation_price < position.entry_price
                ELSE position.liquidation_price > position.entry_price

\* C7: every open position with a stop loss and a liquidation price set has
\* liquidation_price < stop_loss < entry_price (LONG), or
\* entry_price < stop_loss < liquidation_price (SHORT). Stated of the
\* positions of leverage 1 or more.
C7_StopInsideLiquidation ==
    \A pair \in DOMAIN positions :
        LET position == positions[pair]
        IN  (/\ position.leverage >= 1
             /\ position.stop_loss # 0
             /\ position.liquidation_price # 0) =>
                IF position.direction = "LONG"
                THEN /\ position.liquidation_price < position.stop_loss
                     /\ position.stop_loss < position.entry_price
                ELSE /\ position.entry_price < position.stop_loss
                     /\ position.stop_loss < position.liquidation_price

----------------------------------------------------------------------------
(* RiskManager.validate as a function of its arguments *)

\* the arguments of a call
Confidences == {50, 70, 80}
Leverages == {None, Some(-2), Some(11)}
SizePcts == {None, Some(15), Some(16)}
EntryPrices == {None, Some(10000)}
StopLosses == {None, Some(-100), Some(9900), Some(5000)}
TakeProfits == {None, Some(10300)}
Balances == {2000000, -1000}
OpenCounts == {0, 5}
MarginRatios == {700, 710}
FearGreeds == {10, 50}

ValidateDecisions ==
    {TradeDecision(a, "BTCUSDT", None, l, s, e, sl, tp, c) :
        a \in ActionTypes, l \in Leverages, s \in SizePcts, e \in EntryPrices,
        sl \in StopLosses, tp \in TakeProfits, c \in Confidences}

ValidateCalls ==
    {[call |-> "validate", decision |-> d, balance |-> b, open_positions |-> n,
      has_position_for_pair |-> h, circuit_breaker_active |-> cb,
      margin_ratio |-> m] :
        d \in ValidateDecisions, b \in Balances, n \in OpenCounts,
        h \in BOOLEAN, cb \in BOOLEAN, m \in MarginRatios}

\* a started risk manager (update_fear_greed, line 20) and a call's arguments
InitValidate ==
    /\ balance = settings_initial_balance
    /\ initial_balance = settings_initial_balance
    /\ peak_balance = settings_initial_balance
    /\ positions = <<>>
    /\ db = <<>>
    /\ stream = Idle
    /\ analysis = Idle
    /\ next_id = 0
    /\ restarts = 0
    /\ failures = 0
    /\ credits = <<>>
    /\ returned = <<>>
    /\ pair_cooldown = [p \in Pairs |-> None]
    /\ risk_manager \in {[StartedRiskManager EXCEPT !.fear_greed = f] :
                            f \in FearGreeds}
    /\ v_in \in {Some(c) : c \in ValidateCalls}
    /\ v_out = None
    /\ clock = 0
    /\ fundings = 0
    /\ cycle = <<>>
    /\ position_manager = [today_start |-> Date(clock),
                           today_start_balance |-> balance]
    /\ closed_trades = <<>>
    /\ api_costs = <<>>
    /\ daily_stats = {}
    /\ stream_manager = StartedStreamManager
    /\ closed_ago = [p \in Pairs |-> None]
    /\ circuit_breaker = initialize(CircuitBreakerInit,
                                    total_equity(balance, positions), clock)

\* the call: validate(decision, balance, open_positions,
\* has_position_for_pair, circuit_breaker_active, margin_ratio)
Validate ==
    /\ v_out = None
    /\ v_out' = Some(validate(risk_manager, v_in[1].decision, v_in[1].balance,
                              v_in[1].open_positions,
                              v_in[1].has_position_for_pair,
                              v_in[1].circuit_breaker_active,
                              v_in[1].margin_ratio))
    /\ UNCHANGED <<balance, initial_balance, peak_balance, positions, db,
                   stream, analysis, next_id, restarts, failures, credits,
                   returned, pair_cooldown, risk_manager, v_in,
                   circuit_breaker, clock, fundings, cycle,
                   position_manager, closed_trades, api_costs, daily_stats,
                   stream_manager, closed_ago>>

NextValidate == Validate

SpecValidate == InitValidate /\ [][NextValidate]_vars

----------------------------------------------------------------------------
(* Properties of RiskManager.validate, under SpecValidate *)

\* The entry rules in the order of the contract, each with the reason of its
\* failure and whether it holds of the call. measured: whether the risk rule
\* is asked only of a decision that has a positive entry_price to measure the
\* stop distance from (TRUE), or of every decision (FALSE).
EntryRules(call, rm, measured) ==
    LET d == call.decision
        pct == OrElse(d.position_size_pct, default_position_pct)
        lev == OrElse(d.leverage, default_leverage)
        has_entry == Truthy(d.entry_price) /\ d.entry_price[1] > 0
        within == /\ has_entry
                  /\ pct * lev * Abs(d.entry_price[1] - d.stop_loss[1])
                        <= 2 * max_risk_per_trade_pct * d.entry_price[1]
    IN  << <<"circuit_breaker", ~call.circuit_breaker_active>>,
           <<"already_have_position", ~call.has_position_for_pair>>,
           <<"max_positions",
             call.open_positions < ParamGet(rm, "max_open_positions",
                                            max_open_positions)>>,
           <<"confidence",
             d.confidence >= ParamGet(rm, "min_score_to_enter",
                                      min_score_to_enter)>>,
           <<"extreme_fear", rm.fear_greed < 15 => d.confidence >= 80>>,
           <<"leverage", lev <= max_leverage>>,
           <<"position_size", pct <= max_position_pct>>,
           <<"stop_loss", Truthy(d.stop_loss) /\ d.stop_loss[1] > 0>>,
           <<"take_profit", Truthy(d.take_profit) /\ d.take_profit[1] > 0>>,
           <<"risk", Truthy(d.stop_loss) =>
                        IF measured THEN has_entry => within ELSE within>>,
           <<"margin_ratio", call.margin_ratio <= 700>>,
           <<"margin", call.balance * pct <= call.balance * 950>> >>

\* ok only if every rule holds; when one fails, the call is rejected with
\* the reason of the first that fails
EntryRulesDecide(measured) ==
    (v_out # None /\ v_in[1].decision.action \in EnterActions) =>
        LET rules == EntryRules(v_in[1], risk_manager, measured)
            failing == {i \in DOMAIN rules : ~rules[i][2]}
        IN  /\ v_out[1].ok => failing = {}
            /\ failing # {} =>
                  /\ ~v_out[1].ok
                  /\ \E i \in failing :
                        /\ \A j \in failing : i <= j
                        /\ v_out[1].reason = rules[i][1]

\* C8, of the decisions that carry an entry price (this much holds):
\* validate returns ok for an ENTER_LONG/ENTER_SHORT decision only if the circuit breaker is inactive, the pair has no position, the
\* open count is under the maximum, the confidence reaches the minimum (and
\* 0.80 under extreme fear), leverage and size are within their maxima,
\* stop_loss and take_profit are present and > 0, the implied risk is within
\* 2 x max_risk_per_trade whenever the decision has a positive entry_price,
\* margin_ratio <= 0.70 and the margin is within 95% of the balance; the
\* rules are checked in that order and the reason is the first failure's.
C8_EntryRulesMeasured == EntryRulesDecide(TRUE)

\* C8: the same with the implied risk within its bound for every accepted
\* decision, and its rule in its place in the order for every rejected one.
C8_EntryRulesAsClaimed == EntryRulesDecide(FALSE)

FlagTurned ==
    validate(risk_manager, v_in[1].decision, v_in[1].balance,
             v_in[1].open_positions, v_in[1].has_position_for_pair,
             ~v_in[1].circuit_breaker_active, v_in[1].margin_ratio)

\* C10: with circuit_breaker_active true, validate rejects every ENTER_LONG
\* and ENTER_SHORT decision, and its result for a HOLD, EXIT or ADJUST
\* decision is the same as with circuit_breaker_active false.
C10_BreakerBlocksEntriesOnly ==
    v_out # None =>
        /\ (/\ v_in[1].circuit_breaker_active
            /\ v_in[1].decision.action \in EnterActions) => ~v_out[1].ok
        /\ v_in[1].decision.action \in {"HOLD", "EXIT", "ADJUST"} =>
              v_out[1] = FlagTurned

\* the breaker alone has rejected an entry, and has let an EXIT through
C10_BlockedEntry ==
    /\ v_out # None
    /\ v_in[1].circuit_breaker_active
    /\ v_in[1].decision.action \in EnterActions
    /\ v_out[1] = Verdict(FALSE, "circuit_breaker")
    /\ FlagTurned.ok


----------------------------------------------------------------------------
(* The circuit breaker as a gate of the entries, under SpecGate *)

\* FULL_STOP, STOPPED_FOR_DAY or a pause that has not run out
BreakerActive ==
    \/ circuit_breaker.full_stop
    \/ circuit_breaker.stopped_for_day
    \/ /\ circuit_breaker.paused_until # None
       /\ clock < circuit_breaker.paused_until[1]

\* the step of _analyze_pair that puts a new position in the ledger
EntryOpened ==
    /\ analysis.pc = "oracle_wait"
    /\ analysis'.pc = "open_wait"
    /\ analysis.pair \notin DOMAIN positions
    /\ analysis.pair \in DOMAIN positions'

\* C11: under every interleaving of the analysis task with status requests
\* and price updates, no position is opened at a moment when the circuit
\* breaker is in FULL_STOP, in STOPPED_FOR_DAY or in a PAUSED that has not
\* run out.
C11_BreakerGatesEntries == [][EntryOpened => ~BreakerActive]_vars

\* the step in which _analyze_pair acts on the oracle's decision
DecisionStep == analysis.pc = "oracle_wait" /\ analysis'.pc # "oracle_wait"

\* the step's change of the ledger is what executing the decision does, at
\* the price read at line 420
Executes(decision, price) ==
    LET pair == analysis.pair
        opened == open_position(balance, positions, decision, price, next_id + 1)
    IN  \/ /\ decision.action \in EnterActions
           /\ balance' = opened.balance
           /\ positions' = opened.positions
        \/ /\ decision.action = "EXIT"
           /\ pair \in DOMAIN positions
           /\ balance' = CloseBalance(balance, positions[pair], price)
           /\ positions' = positions
        \/ /\ decision.action = "ADJUST"
           /\ balance' = balance
           /\ positions' = Adjust(positions, pair, decision)

\* the decision passes RiskManager.validate on the arguments of lines 405-412
ValidatedOk(decision) ==
    validate(risk_manager, decision, balance, Cardinality(DOMAIN positions),
             analysis.has_position, analysis.cb_active,
             margin_ratio(balance, positions)).ok

\* C12: every change of the ledger that _analyze_pair makes for an oracle
\* decision (open_position for ENTER_*, close_position for EXIT, the new
\* stop_loss / take_profit for ADJUST) is the execution of a decision that
\* RiskManager.validate, called in that run on that decision, accepted.
C12_NoBypass ==
    [][(DecisionStep /\ <<balance, positions>>' # <<balance, positions>>)
          => \E price \in GatePrices :
                \E decision \in OracleDecisions(analysis.pair, price) :
                   ValidatedOk(decision) /\ Executes(decision, price)]_vars

\* an accepted decision is being executed: an entry or an exit awaits its
\* persistence write
C12_Executed ==
    /\ analysis.pc \in {"open_wait", "close_wait"}
    /\ analysis.position # None

----------------------------------------------------------------------------
(* The states of the circuit breaker, under SpecBreaker *)

\* the step is a call of the breaker: check, check_new_day, reset_full_stop
CallStep(call) == v_in' # None /\ v_in'[1].call = call

\* the pause is set and has not run out
Pausing == circuit_breaker.paused_until # None /\ clock < circuit_breaker.paused_until[1]

\* the breaker holds no stop and no pause that has not run out: a check
\* reaches its threshold tests
ReachesTests ==
    /\ ~circuit_breaker.full_stop
    /\ ~circuit_breaker.stopped_for_day
    /\ ~Pausing

\* the check of this step finds the total drawdown at or under its threshold
FindsTotalDrawdown ==
    /\ CallStep("check")
    /\ ReachesTests
    /\ circuit_breaker.initial_equity > 0
    /\ (v_in'[1].equity - circuit_breaker.initial_equity) * 100
          <= total_drawdown_stop_pct * circuit_breaker.initial_equity

\* C13: FULL_STOP is terminal until manually reset.  A check that finds the
\* total drawdown from the initial equity at or under the threshold enters
\* FULL_STOP; from then on every check returns active whatever the equity,
\* and neither a check nor a check_new_day, on any day, leaves FULL_STOP:
\* only reset_full_stop does.
C13_FullStopTerminal ==
    [][/\ FindsTotalDrawdown
          => circuit_breaker'.full_stop /\ v_out'[1].active
       /\ (circuit_breaker.full_stop /\ CallStep("check"))
          => circuit_breaker'.full_stop /\ v_out'[1].active
       /\ (circuit_breaker.full_stop /\ ~circuit_breaker'.full_stop)
          => CallStep("reset_full_stop")]_vars

\* in FULL_STOP on a later day, after a check_new_day of that day, a check
\* with the equity back at its start has returned active
C13_StoppedNextDay ==
    /\ circuit_breaker.full_stop
    /\ circuit_breaker.today = Some(1)
    /\ v_in = BreakerCall("check", StartEquity)
    /\ v_out[1].active

\* the check of this step finds the daily drawdown at or under the daily-stop
\* threshold: its test of the total drawdown has not returned before
FindsDailyStop ==
    /\ CallStep("check")
    /\ ReachesTests
    /\ ~FindsTotalDrawdown
    /\ circuit_breaker.daily_start_equity > 0
    /\ (v_in'[1].equity - circuit_breaker.daily_start_equity) * 100
          <= daily_loss_stop_pct * circuit_breaker.daily_start_equity

\* C14: STOPPED_FOR_DAY is sticky within the day.  A check that finds the
\* daily drawdown at or under the daily-stop threshold enters STOPPED_FOR_DAY;
\* from then on every check returns active, also with an equity that has
\* recovered, and the stop is cleared only by a check_new_day made on a later
\* calendar date.
C14_DayStopSticky ==
    [][/\ FindsDailyStop
          => circuit_breaker'.stopped_for_day /\ v_out'[1].active
       /\ (circuit_breaker.stopped_for_day /\ CallStep("check"))
          => circuit_breaker'.stopped_for_day /\ v_out'[1].active
       /\ (circuit_breaker.stopped_for_day /\ ~circuit_breaker'.stopped_for_day)
          => /\ CallStep("check_new_day")
             /\ circuit_breaker.today[1] < Date(clock)]_vars

\* stopped for the day, a check with the equity back at the day's start has
\* returned active with the stop as its reason
C14_StoppedAfterRecovery ==
    /\ circuit_breaker.stopped_for_day
    /\ v_in = BreakerCall("check", circuit_breaker.daily_start_equity)
    /\ v_out[1].active
    /\ v_out[1].reason = "Day stopped: daily loss exceeded"

\* NORMAL: no stop and no pause stored
Normal ==
    /\ ~circuit_breaker.full_stop
    /\ ~circuit_breaker.stopped_for_day
    /\ circuit_breaker.paused_until = None

\* the check of this step finds the daily drawdown at or under the pause
\* threshold: the tests before it have not returned
FindsPause ==
    /\ CallStep("check")
    /\ ReachesTests
    /\ ~FindsTotalDrawdown
    /\ ~FindsDailyStop
    /\ circuit_breaker.daily_start_equity > 0
    /\ (v_in'[1].equity - circuit_breaker.daily_start_equity) * 100
          <= daily_loss_pause_pct * circuit_breaker.daily_start_equity

\* what check returned in this step and the breaker it left are `checked`
Outcome(checked) ==
    /\ circuit_breaker' = checked.breaker
    /\ v_out'[1].active = checked.active
    /\ v_out'[1].reason = checked.reason

\* C15: PAUSED is timer-bound.  A check in NORMAL that finds the daily
\* drawdown at or under the pause threshold sets the pause to end 4 hours
\* later and returns active; every check before that time returns active
\* whatever the equity; the first check at or after that time clears the
\* pause and tests the thresholds afresh, as from NORMAL, against the equity
\* passed; and the pause changes in no step that is not a check or a
\* check_new_day.
C15_PauseTimerBound ==
    [][/\ (Normal /\ FindsPause)
          => /\ circuit_breaker'.paused_until = Some(clock + 4)
             /\ v_out'[1].active
       /\ (Pausing /\ CallStep("check"))
          => /\ v_out'[1].active
             /\ circuit_breaker'.paused_until = circuit_breaker.paused_until
       /\ (/\ circuit_breaker.paused_until # None
           /\ ~Pausing
           /\ ~circuit_breaker.full_stop
           /\ ~circuit_breaker.stopped_for_day
           /\ CallStep("check"))
          => Outcome(FreshTests([circuit_breaker EXCEPT !.paused_until = None],
                                v_in'[1].equity, clock))
       /\ (/\ circuit_breaker.paused_until # None
           /\ circuit_breaker'.paused_until # circuit_breaker.paused_until)
          => CallStep("check") \/ CallStep("check_new_day")]_vars

\* paused, a check with the equity back at the day's start has returned
\* active because of the pause
C15_PausedWhateverEquity ==
    /\ circuit_breaker.paused_until # None
    /\ clock < circuit_breaker.paused_until[1]
    /\ v_in = BreakerCall("check", circuit_breaker.daily_start_equity)
    /\ v_out[1].active
    /\ v_out[1].reason = "Paused for"

\* the answer of this step's check goes by the daily drawdown of the equity
\* passed: at or under -3% "Day stopped" and STOPPED_FOR_DAY, at or under -2%
\* "Paused 4h" and PAUSED, above it inactive and the state as it was
ByDailyDrawdown ==
    LET D == circuit_breaker.daily_start_equity
        equity == v_in'[1].equity
    IN  IF (equity - D) * 100 <= daily_loss_stop_pct * D
        THEN /\ v_out'[1].active
             /\ v_out'[1].reason = "Day stopped: daily loss"
             /\ circuit_breaker'.stopped_for_day
        ELSE IF (equity - D) * 100 <= daily_loss_pause_pct * D
        THEN /\ v_out'[1].active
             /\ v_out'[1].reason = "Paused 4h: daily loss"
             /\ circuit_breaker'.paused_until = Some(clock + 4)
             /\ ~circuit_breaker'.stopped_for_day
        ELSE /\ ~v_out'[1].active
             /\ circuit_breaker' = circuit_breaker

\* a check made in NORMAL with a day-start equity D > 0
CheckInNormal ==
    /\ Normal
    /\ CallStep("check")
    /\ circuit_breaker.daily_start_equity > 0

\* C16 as stated: from NORMAL with day-start equity D, check(equity)
\* classifies by the daily drawdown alone: "Day stopped" and STOPPED_FOR_DAY
\* at -3% of D, "Paused 4h" and PAUSED at -2%, inactive and NORMAL above.
C16_ClassifiedByDailyDrawdown == [][CheckInNormal => ByDailyDrawdown]_vars

\* C16, amended: the same classification, for an equity whose total drawdown
\* from the initial equity is above the total-drawdown threshold.
C16_ClassifiedUnlessFullStop ==
    [][(CheckInNormal /\ ~FindsTotalDrawdown) => ByDailyDrawdown]_vars

\* day-start equity 1000, check(970) has answered "Day stopped"
C16_Example970 ==
    /\ circuit_breaker.daily_start_equity = 1000000
    /\ v_in = BreakerCall("check", 970000)
    /\ v_out[1].active
    /\ v_out[1].reason = "Day stopped: daily loss"
    /\ circuit_breaker.stopped_for_day

\* of a list of tests, each with the answer it returns, the answer of the
\* first test that is true
FirstOf(tests) ==
    tests[CHOOSE i \in 1..Len(tests) :
             tests[i].when /\ \A j \in 1..(i - 1) : ~tests[j].when].then

Test(when, then) == [when |-> when, then |-> then]

\* what a check of this step returns when it makes its tests in this order:
\* stored FULL_STOP, stored STOPPED_FOR_DAY, stored PAUSED (cleared when it
\* has run out), then the total drawdown, then the two daily thresholds in
\* the order asked for
InOrder(pause_first) ==
    LET cb == circuit_breaker
        cleared == [cb EXCEPT !.paused_until = None]
        equity == v_in'[1].equity
        D == cb.daily_start_equity
        total == Test(/\ cb.initial_equity > 0
                      /\ (equity - cb.initial_equity) * 100
                            <= total_drawdown_stop_pct * cb.initial_equity,
                      Checked(TRUE, "FULL STOP: Drawdown",
                              [cleared EXCEPT !.full_stop = TRUE]))
        stop == Test(D > 0 /\ (equity - D) * 100 <= daily_loss_stop_pct * D,
                     Checked(TRUE, "Day stopped: daily loss",
                             [cleared EXCEPT !.stopped_for_day = TRUE]))
        pause == Test(D > 0 /\ (equity - D) * 100 <= daily_loss_pause_pct * D,
                      Checked(TRUE, "Paused 4h: daily loss",
                              [cleared EXCEPT !.paused_until = Some(clock + 4)]))
    IN  FirstOf(<<Test(cb.full_stop,
                       Checked(TRUE, "FULL STOP: Total drawdown exceeded", cb)),
                  Test(cb.stopped_for_day,
                       Checked(TRUE, "Day stopped: daily loss exceeded", cb)),
                  Test(Pausing, Checked(TRUE, "Paused for", cb)),
                  total>>
                \o (IF pause_first THEN <<pause, stop>> ELSE <<stop, pause>>)
                \o <<Test(TRUE, Checked(FALSE, "", cleared))>>)

\* C17 as stated: a check tests stored FULL_STOP, then stored STOPPED_FOR_DAY,
\* then stored PAUSED (cleared if it has run out), then the total drawdown,
\* then the daily drawdown with the pause threshold before the daily-stop
\* threshold, and returns at the first test that is true.
C17_PauseBeforeStop == [][CallStep("check") => Outcome(InOrder(TRUE))]_vars

\* C17, amended: the same order, with the daily-stop threshold tested before
\* the pause threshold.
C17_StopBeforePause == [][CallStep("check") => Outcome(InOrder(FALSE))]_vars

\* with no pause stored, a check with an equity 8% under the day's start,
\* under both daily thresholds, has answered with the day stop
C17_BothThresholdsCrossed ==
    /\ circuit_breaker.daily_start_equity = 1000000
    /\ circuit_breaker.paused_until = None
    /\ v_in = BreakerCall("check", 920000)
    /\ v_out[1].reason = "Day stopped: daily loss"

----------------------------------------------------------------------------
(* The triggers, under SpecTrigger *)

\* check_stop_loss_take_profit has returned for a position
TriggerChecked ==
    /\ v_out # None
    /\ v_in[1].call = "check_stop_loss_take_profit"
    /\ v_in[1].pair \in DOMAIN positions

\* the price is at or beyond the level, on the side that triggers it
AtOrUnder(price, level) == price <= level
AtOrOver(price, level) == price >= level

LiquidationCrossed(position, price) ==
    /\ position.liquidation_price > 0
    /\ IF position.direction = "LONG"
       THEN AtOrUnder(price, position.liquidation_price)
       ELSE AtOrOver(price, position.liquidation_price)

StopLossCrossed(position, price) ==
    /\ position.stop_loss # 0
    /\ IF position.direction = "LONG"
       THEN AtOrUnder(price, position.stop_loss)
       ELSE AtOrOver(price, position.stop_loss)

TakeProfitCrossed(position, price) ==
    /\ position.take_profit # 0
    /\ IF position.direction = "LONG"
       THEN AtOrOver(price, position.take_profit)
       ELSE AtOrUnder(price, position.take_profit)

\* C18: check_stop_loss_take_profit looks at the liquidation before the stop
\* loss before the take profit.  It returns 'liq' exactly when the price has
\* crossed a liquidation price > 0 (at or under it for a LONG, at or over it
\* for a SHORT), 'sl' exactly when it has not and has crossed a stop loss
\* that is set, 'tp' exactly when neither and it has crossed a take profit
\* that is set (at or over it for a LONG, at or under it for a SHORT), and
\* none otherwise.
C18_TriggerPriority ==
    TriggerChecked =>
       LET position == positions[v_in[1].pair]
           price == v_in[1].price
           liq == LiquidationCrossed(position, price)
           sl == StopLossCrossed(position, price)
           tp == TakeProfitCrossed(position, price)
       IN  /\ (v_out[1] = "liq") <=> liq
           /\ (v_out[1] = "sl") <=> (~liq /\ sl)
           /\ (v_out[1] = "tp") <=> (~liq /\ ~sl /\ tp)
           /\ (v_out[1] = "none") <=> (~liq /\ ~sl /\ ~tp)

\* a price that has crossed the stop loss and the take profit at once, and
\* not the liquidation price, has been answered with the stop loss
C18_StopLossBeforeTakeProfit ==
    /\ TriggerChecked
    /\ StopLossCrossed(positions[v_in[1].pair], v_in[1].price)
    /\ TakeProfitCrossed(positions[v_in[1].pair], v_in[1].price)
    /\ v_out[1] = "sl"

\* C19: the trailing stop never loosens.  For a position with
\* trailing_stop_distance set, in every step of any sequence of
\* update_position_price and update_trailing_stops calls the stop_loss of a
\* LONG does not decrease and the stop_loss of a SHORT, once it is not 0, does
\* not increase.
C19_TrailingNeverLoosens ==
    [][\A pair \in DOMAIN positions \cap DOMAIN positions' :
          Truthy(positions[pair].trailing_stop_distance)
             => /\ positions[pair].direction = "LONG"
                   => positions'[pair].stop_loss >= positions[pair].stop_loss
                /\ (positions[pair].direction = "SHORT"
                      /\ positions[pair].stop_loss # 0)
                   => positions'[pair].stop_loss <= positions[pair].stop_loss]_vars

\* a LONG whose stop was raised to 100 under its highest price and stays
\* there with the price back under that high
C19_StopHeldAfterPullback ==
    \E pair \in DOMAIN positions :
       /\ positions[pair].direction = "LONG"
       /\ Truthy(positions[pair].trailing_stop_distance)
       /\ positions[pair].highest_price = 10400
       /\ positions[pair].stop_loss = 10300
       /\ positions[pair].current_price = 9600

\* the step in which _on_kline evaluates a candle for a position that is
\* past its grace period
KlineStep ==
    /\ v_out = None
    /\ v_out' # None
    /\ v_in[1].call = "_on_kline"
    /\ v_in[1].pair \in DOMAIN positions
    /\ positions[v_in[1].pair].held >= 1

\* the answer to one price, by the priority of C18
Answer(position, price) ==
    IF LiquidationCrossed(position, price) THEN "liq"
    ELSE IF StopLossCrossed(position, price) THEN "sl"
    ELSE IF TakeProfitCrossed(position, price) THEN "tp"
    ELSE "none"

FirstTrigger(answers) ==
    IF \A i \in 1..Len(answers) : answers[i] = "none" THEN "none"
    ELSE answers[CHOOSE i \in 1..Len(answers) :
                    answers[i] # "none" /\ \A j \in 1..(i - 1) : answers[j] = "none"]

\* C20: for a kline handled after the grace period the evaluator tests the
\* adverse extreme first (low for a LONG, high for a SHORT), then the
\* favorable extreme, then the last price, and stops at the first trigger; so
\* a candle whose range crosses both the stop loss and the take profit closes
\* the position as a stop loss, or as a liquidation when the adverse extreme
\* also crosses the liquidation price, and never as a take profit.
C20_AdverseExtremeFirst ==
    [][KlineStep =>
         LET before == positions[v_in[1].pair]
             position == positions'[v_in[1].pair]
             long == position.direction = "LONG"
             adverse == IF long THEN v_in[1].low ELSE v_in[1].high
             favorable == IF long THEN v_in[1].high ELSE v_in[1].low
         IN  /\ v_out'[1] = FirstTrigger(<<Answer(position, adverse),
                                           Answer(position, favorable),
                                           Answer(position, v_in[1].price)>>)
             /\ \A p \in {before, position} :
                   (StopLossCrossed(p, adverse) /\ TakeProfitCrossed(p, favorable))
                      => /\ v_out'[1] \in {"sl", "liq"}
                         /\ (v_out'[1] = "liq")
                               <=> LiquidationCrossed(position, adverse)]_vars

\* a candle past the grace period whose low is under the stop loss of a LONG
\* and whose high is over its take profit, not reaching the liquidation
\* price, has been answered with the stop loss
C20_BothCrossedIsStopLoss ==
    /\ v_out = Some("sl")
    /\ v_in[1].call = "_on_kline"
    /\ v_in[1].pair \in DOMAIN positions
    /\ LET position == positions[v_in[1].pair]
       IN  /\ position.held >= 1
           /\ position.direction = "LONG"
           /\ StopLossCrossed(position, v_in[1].low)
           /\ TakeProfitCrossed(position, v_in[1].high)
           /\ ~LiquidationCrossed(position, v_in[1].low)

----------------------------------------------------------------------------
(* The kline handler and the liquidation level, under SpecGate *)

\* the liquidation level of a position: what open_position computes from its
\* entry price, leverage and direction (paper_trader.py, open_position)
LiquidationLevel(position) ==
    LiquidationPrice(Some(position.direction), position.entry_price,
                     position.leverage)

\* the adverse extreme of the candle reaches that level
ReachesLiquidation(position, k) ==
    IF position.direction = "LONG"
    THEN k[3] <= LiquidationLevel(position)
    ELSE k[2] >= LiquidationLevel(position)

\* the handler has begun the close of the pair's position at this price
ClosesAt(pair, price) ==
    /\ stream'.pc = "close_wait"
    /\ stream'.pair = pair
    /\ balance' = CloseBalance(balance, positions'[pair], price)

\* C21: within the grace period after a position opens no kline closes it
\* through its stop loss or take profit; and for an open position of any age
\* a kline whose adverse extreme reaches the position's liquidation level
\* closes it as a liquidation, at that level, within the handling of that
\* kline.
C21_GraceAndLiquidation ==
    [][\A pair \in DOMAIN positions, k \in GateKlines :
          (OnKline(pair, k) /\ positions[pair].leverage >= 1)
             => /\ (positions[pair].held < 1 /\ stream'.pc = "close_wait")
                   => ClosesAt(pair, positions[pair].liquidation_price)
                /\ ReachesLiquidation(positions[pair], k)
                   => ClosesAt(pair, LiquidationLevel(positions[pair]))]_vars

----------------------------------------------------------------------------
(* Funding, the peak balance and the round trip, under SpecAccount *)

\* the step is the call apply_funding_rate(pair, funding_rate)
FundingStep(pair, funding_rate) ==
    /\ fundings' = fundings + 1
    /\ v_in' = Some([call |-> "apply_funding_rate", pair |-> pair,
                     funding_rate |-> funding_rate])

\* notional x rate for a LONG, -notional x rate for a SHORT, the notional
\* being quantity x current price
SignedFunding(position, funding_rate) ==
    LET charge == MulFrac(Quot(position.quantity * position.current_price, 1000),
                          funding_rate, 100000)
    IN  IF position.direction = "LONG" THEN charge ELSE -charge

C23_DrawdownNeverPositive ==
    /\ drawdown_pct(balance, positions, peak_balance) <= 0
    /\ peak_balance >= total_equity(balance, positions)

\* C24: peak_balance never decreases over any sequence of ledger operations,
\* and initial_balance never changes after construction.
C24_PeakMonotone ==
    [][/\ peak_balance' >= peak_balance
       /\ initial_balance' = initial_balance]_vars

\* a close at a loss has left the balance under the peak, which stayed
C24_PeakKeptAfterLoss ==
    /\ peak_balance = initial_balance
    /\ balance < peak_balance
    /\ positions = <<>>
    /\ v_in # None
    /\ v_in[1].call = "close_position"
    /\ v_out # None
    /\ v_out[1].pnl < 0

\* the step closes, at the market price it was opened at, the position that
\* the step before opened: no price update and no funding in between
RoundTrip(pair) ==
    /\ v_in # None
    /\ v_in[1].call = "open_position"
    /\ v_in[1].decision.pair = pair
    /\ v_out # None
    /\ pair \in DOMAIN positions
    /\ positions[pair].funding_paid = 0
    /\ positions[pair].current_price = v_in[1].current_price
    /\ v_in' = Some([call |-> "close_position", pair |-> pair,
                     current_price |-> v_in[1].current_price])

\* C25 as stated: the round trip yields
\* net_pnl = -(entry_fee + exit_fee) - 2 x notional x slippage, strictly
\* negative, the notional being margin x leverage.
C25_RoundTripOnNotional ==
    [][\A pair \in Pairs :
          RoundTrip(pair)
             => LET position == positions[pair]
                    notional == position.margin_used * position.leverage
                IN  /\ v_out'[1].pnl =
                          - (v_out'[1].entry_fee + v_out'[1].exit_fee)
                          - MulFrac(2 * notional, Slippage(pair), 10000)
                    /\ v_out'[1].pnl < 0]_vars

\* C25, amended: the round trip yields
\* net_pnl = -(entry_fee + exit_fee) - 2 x quantity x price x slippage,
\* strictly negative, for LONG and SHORT and for major and non-major pairs;
\* quantity x price is the notional divided by (1 + slippage) for a LONG and
\* by (1 - slippage) for a SHORT.
C25_RoundTripOnQuantity ==
    [][\A pair \in Pairs :
          RoundTrip(pair)
             => LET position == positions[pair]
                    slip == MulFrac(position.current_price, Slippage(pair), 10000)
                IN  /\ v_out'[1].pnl =
                          - (v_out'[1].entry_fee + v_out'[1].exit_fee)
                          - Quot(2 * slip * position.quantity, 1000)
                    /\ v_out'[1].pnl < 0]_vars

\* a SHORT of the non-major pair has been closed right after its open, at
\* the same market price
C25_RoundTripDone ==
    /\ v_in # None
    /\ v_in[1].call = "close_position"
    /\ v_in[1].pair = "SOLUSDT"
    /\ v_in[1].current_price = 10000
    /\ v_out # None
    /\ v_out[1].exit_price = 10003
    /\ v_out[1].pnl = - (v_out[1].entry_fee + v_out[1].exit_fee) - 450

----------------------------------------------------------------------------
(* The oracle's failures, the pass over the pairs and the blocked event *)
(* loop, under SpecLoop                                                 *)

\* the step leaves the ledger alone and the pass over the pairs goes on
LedgerHeld ==
    /\ balance' = balance
    /\ positions' = positions
    /\ next_id' = next_id
    /\ cycle' = cycle

C27_PairsIsolated ==
    [][(cycle # <<>> /\ cycle' # cycle)
          => /\ cycle' = Tail(cycle)
             /\ analysis.pc = "idle"
             /\ \/ ReturnsEarly(Head(cycle))
                \/ /\ analysis'.pc = "memory_wait"
                   /\ analysis'.pair = Head(cycle)]_vars

\* the kline closes the pair's position through its stop loss or its
\* liquidation level
Crosses(pair, k) ==
    /\ pair \in DOMAIN positions
    /\ KlineTrigger(PriceUpdate(positions, pair, k[1])[pair], k[1], k[2], k[3])
          \in {"sl", "liq"}

\* C28: a make_decision call that has not returned does not freeze the
\* handling of klines: while the call is in progress a kline that crosses the
\* stop loss or the liquidation level of an open position can be handled, and
\* closes the position, without waiting for the call to return.
C28_KlinesHandledDuringCall ==
    \A pair \in Pairs, k \in GateKlines :
       (analysis.pc = "oracle_call" /\ stream.pc = "idle" /\ Crosses(pair, k))
          => ENABLED (Running /\ OnKline(pair, k))

----------------------------------------------------------------------------
(* Reporting reads and the writers of the positions, under SpecGate *)

\* C29: the reporting reads are read-only: get_status (with the
\* get_equity_summary it includes) leaves the ledger state (balance,
\* positions, peak_balance) and the circuit breaker's full-stop flag, day-stop
\* flag and pause timer unchanged.
C29_ReportingReadsOnly ==
    [][GetStatus
          => /\ UNCHANGED <<balance, positions, peak_balance>>
             /\ circuit_breaker'.full_stop = circuit_breaker.full_stop
             /\ circuit_breaker'.stopped_for_day = circuit_breaker.stopped_for_day
             /\ circuit_breaker'.paused_until = circuit_breaker.paused_until]_vars

\* the new positions are what an operation of PaperTrader makes of the old
ByPaperTrader ==
    \/ \E pair \in Pairs, price \in AnalysisPrices :
          \E decision \in OracleDecisions(pair, price) :
             positions' = open_position(balance, positions, decision, price,
                                        next_id + 1).positions
    \/ \E pair \in DOMAIN positions : positions' = CloseRemove(positions, pair)
    \/ \E pair \in Pairs, price \in GatePrices :
          positions' = PriceUpdate(positions, pair, price)
    \/ \E pair \in Pairs, atr \in Atrs \ {None} :
          positions' = set_trailing_stop(positions, pair, MulFrac(atr[1], 25, 10))

\* C30: only the ledger mutates positions: every change of the map of open
\* positions or of a field of an open Position is made by an operation of
\* PaperTrader (open_position, close_position, update_position_price,
\* update_trailing_stops, set_trailing_stop); the engine never writes a
\* Position or the map itself.
C30_OnlyLedgerWritesPositions ==
    [][positions' # positions => ByPaperTrader]_vars

----------------------------------------------------------------------------
(* Rejected operations of the ledger, under SpecSmall *)

\* the call was refused: it returned None, raised nothing and left the ledger
Refused ==
    /\ v_out' = None
    /\ UNCHANGED <<balance, peak_balance, positions, next_id, db>>

\* C31: rejected ledger operations leave the ledger unchanged: open_position
\* on a pair that has a position, open_position whose margin + entry fee
\* exceeds the balance, and close_position on a pair without a position each
\* return a failure value, raise nothing and change neither the balance, nor
\* the peak balance, nor any position.
C31_RejectedLeaveLedger ==
    [][/\ \A pair \in Pairs, price \in AnalysisPrices :
             \A decision \in EntryDecisions(pair, price) \cup {Oversized(pair, price)} :
                (/\ OpenPosition(decision, price)
                 /\ decision.pair = pair
                 /\ \/ pair \in DOMAIN positions
                    \/ OpenMargin(balance, decision)
                          + EntryFee(OpenNotional(balance, decision)) > balance)
                   => Refused
       /\ \A pair \in Pairs, price \in Prices :
             (ClosePosition(pair, price) /\ pair \notin DOMAIN positions)
                => Refused]_vars

\* an oversized open was refused while the other pair had a position, after
\* an earlier duplicate
C31_OversizedRefused ==
    /\ v_in # None
    /\ v_in[1].call = "open_position"
    /\ v_in[1].decision.position_size_pct = Some(1000)
    /\ v_in[1].decision.pair \notin DOMAIN positions
    /\ v_out = None
    /\ positions # <<>>

----------------------------------------------------------------------------
(* The balance of the ledger, under SpecSmall *)

\* C34: the balance is never negative: in every reachable state of the
\* ledger, after any sequence of opens, funding applications and closes
\* (closes at a loss included), balance >= 0.
C34_BalanceNeverNegative == balance >= 0

----------------------------------------------------------------------------
(* Realized profit and loss, under SpecAccount *)

\* every trade that got an id has been closed and its row written
AllClosed == positions = <<>> /\ Len(closed_trades) = next_id /\ next_id > 0

\* C36: realized PnL is conserved: whenever no position is open, balance -
\* initial_balance equals the sum of net_pnl over all closed trades, every
\* entry fee, exit fee and funding charge having reduced the balance exactly
\* once.
C36_RealizedPnlConserved ==
    AllClosed =>
        balance - initial_balance
            = SumOver(closed_trades, DOMAIN closed_trades, "pnl")

----------------------------------------------------------------------------
(* The total drawdown and the other states of the breaker, under SpecBreaker *)

\* the step is a check whose equity has the total drawdown at or under the
\* threshold, made while the breaker is not yet in FULL_STOP
TotalDrawdownPassed ==
    /\ CallStep("check")
    /\ ~circuit_breaker.full_stop
    /\ circuit_breaker.initial_equity > 0
    /\ (v_in'[1].equity - circuit_breaker.initial_equity) * 100
          <= total_drawdown_stop_pct * circuit_breaker.initial_equity

\* C37: a total drawdown at or beyond the limit always trips the full stop:
\* whenever check(equity) is called with (equity - initial_equity) /
\* initial_equity <= the threshold, the breaker is in FULL_STOP when the call
\* returns, whatever state (NORMAL, PAUSED, STOPPED_FOR_DAY) it was in.
C37_TotalDrawdownAlwaysTrips ==
    [][TotalDrawdownPassed => circuit_breaker'.full_stop]_vars

\* C37 as the program has it: the check trips the full stop when it reaches
\* its threshold tests, that is from NORMAL or with a pause that has run
\* out; in STOPPED_FOR_DAY and during a pause it returns active before it
\* looks at the equity and leaves the breaker as it is.
C37_TotalDrawdownTripsWhenTested ==
    [][TotalDrawdownPassed =>
          IF ReachesTests
          THEN /\ circuit_breaker'.full_stop
               /\ v_out'[1].active
          ELSE /\ circuit_breaker' = circuit_breaker
               /\ v_out'[1].active]_vars

\* a check with the equity 10% under the initial one has just set the full
\* stop of a breaker that had a pause stored
C37_TrippedAfterPause ==
    /\ v_in # None
    /\ v_in[1].call = "check"
    /\ v_in[1].equity = 900000
    /\ circuit_breaker.full_stop
    /\ ~circuit_breaker.stopped_for_day
    /\ clock >= pause_hours

----------------------------------------------------------------------------
(* PositionManager.initialize, under Spec *)

\* every open row is an open position of the ledger, without stop loss and
\* take profit
RowsRestored ==
    \A i \in DOMAIN db' :
       \E p \in DOMAIN positions' :
          /\ positions'[p].id = i
          /\ positions'[p].pair = db'[i].pair
          /\ positions'[p].stop_loss = 0
          /\ positions'[p].take_profit = 0

\* C33: after PositionManager.initialize completes, every persisted open
\* trade row is an open position in the ledger with stop_loss = 0 and
\* take_profit = 0, and the day-start equity baseline equals the ledger's
\* total_equity computed with those restored positions included.
C33_RestoredWithBaseline ==
    [][Restart =>
          /\ RowsRestored
          /\ position_manager'.today_start_balance
                = total_equity(balance', positions')]_vars

----------------------------------------------------------------------------
(* The engine with one position allowed: max_open_positions = 1 among the
   stored parameters, two entries in a run, no restart *)

single_position == 1

NextCap ==
    \/ \E pair \in Pairs : AnalyzePair(pair)
    \/ BreakerSampled
    \/ \E price \in AnalysisPrices :
          \E decision \in {d \in OracleDecisions(analysis.pair, price) :
                              \/ d.leverage = Some(max_leverage)
                              \/ d.action = "EXIT"} :
             /\ analysis.pc = "oracle_wait"
             /\ DecideWithin(MaxEntries, decision, price, None)
             /\ UNCHANGED <<v_in, v_out>>
    \/ OpenDone
    \/ ExitCloseDone
    \/ \E pair \in Pairs, k \in Klines : OnKline(pair, k)
    \/ KlineCloseDone
    \/ \E d \in Delays : Tick(d)

SpecCap ==
    Started(settings_initial_balance, single_position) /\ [][NextCap]_vars

----------------------------------------------------------------------------
(* The number of open positions and the cooldown of a pair, under SpecCap *)

\* C35: with a fixed max_open_positions and no positions restored at
\* startup, the number of open positions never exceeds max_open_positions
\* in any reachable state of the engine: an entry is validated against the
\* live count and opened with no suspension point in between.
C35_OpenPositionsCapped ==
    Cardinality(DOMAIN positions) <= risk_manager.params.max_open_positions[1]

\* the oracle is about to answer for a pair without a position while the
\* ledger holds as many positions as allowed and the run has an entry left
C35_EntryAtTheCap ==
    /\ analysis.pc = "oracle_wait"
    /\ analysis.pair \notin DOMAIN positions
    /\ Cardinality(DOMAIN positions) = risk_manager.params.max_open_positions[1]
    /\ next_id < MaxEntries

\* C40: after a position on a pair is closed (by stop loss, take profit,
\* liquidation or an oracle EXIT), the engine opens no new position on that
\* pair during the following 180 seconds.
C40_CooldownAfterClose ==
    [][\A p \in Pairs :
          (p \notin DOMAIN positions /\ p \in DOMAIN positions')
             => (closed_ago[p] = None \/ closed_ago[p][1] >= 12)]_vars

----------------------------------------------------------------------------
(* The loss of a position, under SpecGate *)

\* C38: a position never loses more than its margin: at every
\* close_position, margin_used + net_pnl >= 0, so a close never lowers the
\* balance, the liquidation trigger having closed the position at the
\* liquidation level before its loss could reach the margin.
C38_LossWithinMargin ==
    [][credits' # credits => balance' >= balance]_vars

----------------------------------------------------------------------------
(* execution/position_manager.py: the daily statistics *)

MaxCosts == 1

\* round(x, 2) of an amount in 0.001 units: the nearest 0.01, a tie going to
\* the even hundredth; round(x, 4) changes nothing at this resolution
Round2(x) ==
    LET q == x \div 10
        r == x % 10
    IN  IF r < 5 THEN q * 10
        ELSE IF r > 5 THEN (q + 1) * 10
        ELSE IF q % 2 = 0 THEN q * 10 ELSE (q + 1) * 10

\* an INSERT that does not look for the row of the date
insertDailyStats(table, stats) == table \cup {stats}

\* Database.upsert_daily_stats, lines 444-455: INSERT ... ON CONFLICT(date)
\* DO UPDATE SET every column but date
upsert_daily_stats(table, stats) ==
    {r \in table : r.date # stats.date} \cup {stats}

\* PositionManager.compute_daily_stats, lines 93-135, on the closed rows and
\* the cost rows of the database (fewer than the limits of the two queries);
\* avg_hold_time_minutes is left out, the closed rows of the model having no
\* hold time.  max_drawdown_pct is in 0.01 percent.
compute_daily_stats(pm, trades, costs, bal, initial, poss, peak, today) ==
    LET today_trades == {i \in DOMAIN trades : trades[i].closed_at = today}
        since == {i \in DOMAIN costs : costs[i].created_at >= today}
        pnls == {trades[i].pnl : i \in today_trades}
        total_fees == SumOver(trades, today_trades, "entry_fee")
                         + SumOver(trades, today_trades, "exit_fee")
        pnl_net == SumOver(trades, today_trades, "pnl")
        total_api_cost == SumOver(costs, since, "cost_usd")
        starting == IF pm.today_start_balance # 0
                    THEN pm.today_start_balance ELSE initial
    IN  [date |-> today,
         starting_balance |-> Round2(starting),
         ending_balance |-> Round2(total_equity(bal, poss)),
         pnl_gross |-> pnl_net + total_fees,
         pnl_net |-> pnl_net - total_api_cost,
         total_trades |-> Cardinality(today_trades),
         winning_trades |-> Cardinality({i \in today_trades : trades[i].pnl > 0}),
         losing_trades |-> Cardinality({i \in today_trades : trades[i].pnl <= 0}),
         total_fees |-> total_fees,
         total_api_costs |-> total_api_cost,
         max_drawdown_pct |-> drawdown_pct(bal, poss, peak) * 10,
         best_trade_pnl |-> IF pnls = {} THEN 0
                            ELSE CHOOSE x \in pnls : \A y \in pnls : y <= x,
         worst_trade_pnl |-> IF pnls = {} THEN 0
                             ELSE CHOOSE x \in pnls : \A y \in pnls : x <= y]

\* await compute_daily_stats(), as _daily_stats_loop calls it every hour
\* (engine.py lines 618-625); v_in holds the table the call found and v_out
\* the stats it returned
ComputeDailyStats ==
    /\ LET stats == compute_daily_stats(position_manager, closed_trades,
                                        api_costs, balance, initial_balance,
                                        positions, peak_balance, Date(clock))
       IN  /\ daily_stats' = upsert_daily_stats(daily_stats, stats)
           /\ v_out' = Some(stats)
    /\ v_in' = Some([call |-> "compute_daily_stats", found |-> daily_stats])
    /\ UNCHANGED <<balance, initial_balance, peak_balance, positions, db, stream,
                   analysis, next_id, restarts, failures, credits, returned,
                   pair_cooldown, risk_manager, circuit_breaker, clock,
                   fundings, cycle, position_manager, closed_trades, api_costs,
                   stream_manager, closed_ago>>

\* db.insert_api_cost after a call of the oracle (claude_trader.py line 197,
\* database.py lines 388-395)
InsertApiCost(cost_usd) ==
    /\ Len(api_costs) < MaxCosts
    /\ api_costs' = Append(api_costs, [cost_usd |-> cost_usd,
                                       created_at |-> Date(clock)])
    /\ UNCHANGED <<balance, initial_balance, peak_balance, positions, db, stream,
                   analysis, next_id, restarts, failures, credits, returned,
                   pair_cooldown, risk_manager, v_in, v_out, circuit_breaker,
                   clock, fundings, cycle, position_manager, closed_trades,
                   daily_stats, stream_manager, closed_ago>>

\* PositionManager.check_new_day, lines 140-146, called at the top of every
\* pass of the analysis loop (engine.py line 258)
NewDayChecked ==
    /\ position_manager' =
          IF Date(clock) # position_manager.today_start
          THEN [today_start |-> Date(clock),
                today_start_balance |-> total_equity(balance, positions)]
          ELSE position_manager
    /\ UNCHANGED <<balance, initial_balance, peak_balance, positions, db, stream,
                   analysis, next_id, restarts, failures, credits, returned,
                   pair_cooldown, risk_manager, v_in, v_out, circuit_breaker,
                   clock, fundings, cycle, closed_trades, api_costs,
                   daily_stats, stream_manager, closed_ago>>

\* one trade of the ledger, its price updates and its close, the costs of the
\* oracle, and the statistics computed at any moment of two days
NextStats ==
    \/ \E pair \in {"BTCUSDT"}, price \in AnalysisPrices :
          \E decision \in {d \in EntryDecisions(pair, price) : d.leverage = Some(max_leverage)} :
             next_id < MaxOpens /\ OpenPosition(decision, price)
    \/ \E pair \in {"BTCUSDT"}, price \in {9900, 10400} : ClosePosition(pair, price)
    \/ \E pair \in {"BTCUSDT"}, price \in TradePrices : UpdatePrice(pair, price)
    \/ ComputeDailyStats
    \/ InsertApiCost(3)
    \/ NewDayChecked
    \/ ClockAdvance(24)

SpecStats == Init /\ [][NextStats]_vars

----------------------------------------------------------------------------
(* The daily statistics, under SpecStats *)

\* the trades closed on the day of the clock
ClosedToday == {i \in DOMAIN closed_trades : closed_trades[i].closed_at = Date(clock)}

\* the table holds a row of today that no close has followed: it counts all
\* the trades closed today
Recorded(r) ==
    /\ r \in daily_stats
    /\ r.date = Date(clock)
    /\ r.total_trades = Cardinality(ClosedToday)

\* the call leaves exactly one row of today, the stats it returned, and its
\* winning and losing trades add up to its trades
OneRowOfToday ==
    /\ {r \in daily_stats' : r.date = Date(clock)} = {v_out'[1]}
    /\ v_out'[1].winning_trades + v_out'[1].losing_trades
          = v_out'[1].total_trades

\* the columns computed from the closed trades alone
SameTrades(r, s) ==
    /\ r.total_trades = s.total_trades
    /\ r.winning_trades = s.winning_trades
    /\ r.losing_trades = s.losing_trades
    /\ r.pnl_gross = s.pnl_gross
    /\ r.total_fees = s.total_fees
    /\ r.best_trade_pnl = s.best_trade_pnl
    /\ r.worst_trade_pnl = s.worst_trade_pnl

\* C32: compute_daily_stats is idempotent per day: called any number of
\* times on the same date with no trade closed in between, it leaves exactly
\* one persisted daily-stats record for that date, with the same values as
\* after a single call, and in every result winning_trades + losing_trades
\* = total_trades.
C32_SameRecord ==
    [][ComputeDailyStats =>
          /\ OneRowOfToday
          /\ \A r \in daily_stats : Recorded(r) => v_out'[1] = r]_vars

\* C32 as the program has it: one record per date, whose columns computed
\* from the closed trades are the same after every call with no close in
\* between; ending_balance, max_drawdown_pct, pnl_net and total_api_costs
\* are those of the moment of the last call.
C32_SameTradeColumns ==
    [][ComputeDailyStats =>
          /\ OneRowOfToday
          /\ \A r \in daily_stats : Recorded(r) => SameTrades(v_out'[1], r)
          /\ v_out'[1].ending_balance
                = Round2(total_equity(balance, positions))]_vars

\* a second call on a day with a closed trade, no trade closed since the
\* first call, has stored other values than the first
C32_RecomputedDiffers ==
    /\ v_in # None
    /\ v_in[1].call = "compute_daily_stats"
    /\ \E r \in v_in[1].found :
          /\ r.date = v_out[1].date
          /\ r.total_trades = v_out[1].total_trades
          /\ r.total_trades >= 1
          /\ r # v_out[1]
    /\ Cardinality({r \in daily_stats : r.date = v_out[1].date}) = 1

----------------------------------------------------------------------------
(* data/stream_manager.py: the task of _connect_streams, time in seconds *)

max_reconnect_delay == 60

\* ws_connect returns (lines 62-65)
Connected ==
    /\ stream_manager.pc = "connect"
    /\ stream_manager' = [stream_manager EXCEPT !.ws = "open",
                                                !.reconnect_delay = 1,
                                                !.pc = "receive",
                                                !.last = "connected"]
    /\ UNCHANGED <<balance, initial_balance, peak_balance, positions, db, stream,
                   analysis, next_id, restarts, failures, credits, returned,
                   pair_cooldown, risk_manager, v_in, v_out, circuit_breaker,
                   clock, fundings, cycle, position_manager, closed_trades,
                   api_costs, daily_stats, closed_ago>>

\* ws_connect, or ClientSession(), raises (lines 59-62, 76-81): the except
\* clause logs, and the finally clause reads the local variable ws, which no
\* iteration has assigned if no attempt has succeeded yet; the
\* UnboundLocalError leaves the loop and the task ends, _running still True
ConnectFailed ==
    /\ stream_manager.pc = "connect"
    /\ stream_manager' =
          IF stream_manager.ws = "unbound"
          THEN [stream_manager EXCEPT !.pc = "ended", !.last = "failed"]
          ELSE [stream_manager EXCEPT !.pc = "sleep", !.slept = 0,
                                      !.last = "failed"]
    /\ UNCHANGED <<balance, initial_balance, peak_balance, positions, db, stream,
                   analysis, next_id, restarts, failures, credits, returned,
                   pair_cooldown, risk_manager, v_in, v_out, circuit_breaker,
                   clock, fundings, cycle, position_manager, closed_trades,
                   api_costs, daily_stats, closed_ago>>

\* the async for ends while the manager is running (lines 67-81): an ERROR
\* or CLOSED message, a receive timeout or an exception of json.loads; the
\* finally clause closes ws and the session
Dropped ==
    /\ stream_manager.pc = "receive"
    /\ stream_manager' = [stream_manager EXCEPT !.ws = "closed",
                                                !.pc = "sleep",
                                                !.slept = 0,
                                                !.last = "dropped"]
    /\ UNCHANGED <<balance, initial_balance, peak_balance, positions, db, stream,
                   analysis, next_id, restarts, failures, credits, returned,
                   pair_cooldown, risk_manager, v_in, v_out, circuit_breaker,
                   clock, fundings, cycle, position_manager, closed_trades,
                   api_costs, daily_stats, closed_ago>>

\* one second of asyncio.sleep(self._reconnect_delay) (line 86)
Slept ==
    /\ stream_manager.pc = "sleep"
    /\ stream_manager.slept < stream_manager.reconnect_delay
    /\ stream_manager' = [stream_manager EXCEPT !.slept = @ + 1]
    /\ UNCHANGED <<balance, initial_balance, peak_balance, positions, db, stream,
                   analysis, next_id, restarts, failures, credits, returned,
                   pair_cooldown, risk_manager, v_in, v_out, circuit_breaker,
                   clock, fundings, cycle, position_manager, closed_trades,
                   api_costs, daily_stats, closed_ago>>

\* the sleep returns (line 87) and the loop tests _running (line 58)
Woke ==
    /\ stream_manager.pc = "sleep"
    /\ stream_manager.slept = stream_manager.reconnect_delay
    /\ stream_manager' =
          [stream_manager EXCEPT
              !.reconnect_delay = IF @ * 2 < max_reconnect_delay
                                  THEN @ * 2 ELSE max_reconnect_delay,
              !.pc = IF stream_manager.running THEN "connect" ELSE "ended"]
    /\ UNCHANGED <<balance, initial_balance, peak_balance, positions, db, stream,
                   analysis, next_id, restarts, failures, credits, returned,
                   pair_cooldown, risk_manager, v_in, v_out, circuit_breaker,
                   clock, fundings, cycle, position_manager, closed_trades,
                   api_costs, daily_stats, closed_ago>>

\* StreamManager.stop, lines 107-117: the connections and sessions are
\* closed, which ends a pending attempt and the async for; neither sleeps,
\* _running being False (line 84)
Stop ==
    /\ stream_manager.running
    /\ stream_manager' =
          [stream_manager EXCEPT
              !.running = FALSE,
              !.ws = IF @ = "open" THEN "closed" ELSE @,
              !.pc = IF @ \in {"connect", "receive"} THEN "ended" ELSE @]
    /\ UNCHANGED <<balance, initial_balance, peak_balance, positions, db, stream,
                   analysis, next_id, restarts, failures, credits, returned,
                   pair_cooldown, risk_manager, v_in, v_out, circuit_breaker,
                   clock, fundings, cycle, position_manager, closed_trades,
                   api_costs, daily_stats, closed_ago>>

NextStream ==
    \/ Connected
    \/ ConnectFailed
    \/ Dropped
    \/ Slept
    \/ Woke
    \/ Stop

\* the event loop runs the task: an attempt ends, with a connection or an
\* exception, and a sleep lasts its seconds and returns; nothing makes an
\* open connection drop or the manager stop
SpecStream ==
    /\ Init
    /\ [][NextStream]_vars
    /\ WF_vars(Connected \/ ConnectFailed)
    /\ WF_vars(Slept)
    /\ WF_vars(Woke)

----------------------------------------------------------------------------
(* The reconnection of the streams, under SpecStream *)

\* a failed attempt or a dropped connection of a running manager is followed
\* by a new attempt, unless the manager is stopped first
Reconnects ==
    (stream_manager.running /\ stream_manager.last \in {"failed", "dropped"}
        /\ stream_manager.pc # "connect")
       ~> (stream_manager.pc = "connect" \/ ~stream_manager.running)

\* the delay is 1 after a connection, doubles up to 60 after each sleep, and
\* a sleep lasts the delay of the moment it began
ReconnectDelays ==
    /\ [][/\ Connected => stream_manager'.reconnect_delay = 1
          /\ Woke => /\ stream_manager.slept = stream_manager.reconnect_delay
                     /\ stream_manager'.reconnect_delay
                           \in {2 * stream_manager.reconnect_delay,
                                max_reconnect_delay}]_vars
    /\ [](stream_manager.reconnect_delay \in 1..max_reconnect_delay)

\* C39: while the stream manager is running, every failed connection
\* attempt and every dropped connection is eventually followed by a new
\* connection attempt, after a delay that starts at 1 second, doubles after
\* each consecutive failure, never exceeds 60 seconds and returns to 1 after
\* a successful connect.
C39_AlwaysReconnects == Reconnects /\ ReconnectDelays

\* the same once an attempt of the task has succeeded
C39_ReconnectsOnceConnected ==
    /\ (stream_manager.running /\ stream_manager.last \in {"failed", "dropped"}
           /\ stream_manager.pc # "connect" /\ stream_manager.ws # "unbound")
          ~> (stream_manager.pc = "connect" \/ ~stream_manager.running)
    /\ ReconnectDelays

=============================================================================
